---- MODULE Spec2Model ----
(***************************************************************************)
(* Ingredient normalisation and price resolution of recipe-finder.         *)
(*                                                                         *)
(* Text is kept as TLA+ strings and handled character by character, so the *)
(* regular expressions of IngredientParser and EstonianPriceProvider are   *)
(* modelled by what they match.  JavaScript numbers are fixed-point:       *)
(*   a written quantity          in tenths        (2.5   -> 25)            *)
(*   a unit factor / item weight in 1e-5          (0.0148 -> 1480)         *)
(*   a normalized quantity       in 1e-6          (tenths * factor)        *)
(* and carry a NaN flag, because the parser can produce NaN.  Input lines  *)
(* write at most one decimal digit.                                        *)
(***************************************************************************)
EXTENDS Integers, Sequences, FiniteSets, TLC

VARIABLES
    form,          \* parser run: how the input line was put together
    line,          \* parser run: the argument of parseIngredient
    parsed,        \* parser run: <<>>, then << the record returned >>
    initialized,   \* EstonianPriceProvider.initialized
    dbOpen,        \* DatabaseService.db is set
    tableExists,   \* the ingredient_translations table was created
    translations,  \* rows of the ingredient_translations table
    translationCache, \* EstonianTranslationService.translationCache
    call,          \* translation lookups: one record per getIngredientPrice
    activeSources, \* EstonianPriceProvider.activeSources
    snapshots,     \* rows of the price_snapshots table
    clock,         \* datetime('now'), in seconds
    recipe,        \* <<>>, then << the calculateRecipeCost call >>
    lookup,        \* price lookups: one record per getIngredientPrice call
    answer,        \* cache reads: <<>>, then << the last getCachedPrice answer >>
    tables,        \* rows of recipe_calculations, parsed_ingredients and
                   \* recipe_ingredients, uncommitted ones included
    transaction,   \* <<>>, or << the tables when the open transaction began >>
    storing,       \* storeRecipeCalculation invocations
    sourcesCall,   \* <<>>, then << the last setActiveSources call >>
    dateNow,       \* Date.now(), in milliseconds
    lastApiCall,   \* EstonianTranslationService.lastApiCall
    translating    \* _mockTranslateAPI invocations

parserVars == <<form, line, parsed>>

providerVars == <<initialized, dbOpen, tableExists, translations,
                  translationCache, call>>

priceVars == <<activeSources, snapshots, clock, recipe, lookup, answer>>

serviceVars == <<tables, transaction, storing, sourcesCall, dateNow,
                 lastApiCall, translating>>

vars == <<form, line, parsed, initialized, dbOpen, tableExists, translations,
          translationCache, call, activeSources, snapshots, clock, recipe,
          lookup, answer, tables, transaction, storing, sourcesCall,
          dateNow, lastApiCall, translating>>

(***************************************************************************)
(* Strings                                                                 *)
(***************************************************************************)
Ch(s, i) == SubSeq(s, i, i)

From(s, i) == SubSeq(s, i, Len(s))

Uppers == <<"A","B","C","D","E","F","G","H","I","J","K","L","M",
            "N","O","P","Q","R","S","T","U","V","W","X","Y","Z">>

Lowers == <<"a","b","c","d","e","f","g","h","i","j","k","l","m",
            "n","o","p","q","r","s","t","u","v","w","x","y","z">>

DigitChars == <<"0","1","2","3","4","5","6","7","8","9">>

IsDigit(c) == \E i \in 1..Len(DigitChars) : DigitChars[i] = c

DigitVal(c) == (CHOOSE i \in 1..Len(DigitChars) : DigitChars[i] = c) - 1

\* \s of the regular expressions, over the characters input lines use
IsSpace(c) == c = " " \/ c = "\n"

\* "." of a regular expression without the s flag: anything but a line end
IsLineEnd(c) == c = "\n"

\* \w
IsWordChar(c) ==
    \/ IsDigit(c)
    \/ c = "_"
    \/ \E i \in 1..Len(Lowers) : Lowers[i] = c \/ Uppers[i] = c

LowerCh(c) ==
    IF \E i \in 1..Len(Uppers) : Uppers[i] = c
    THEN Lowers[CHOOSE i \in 1..Len(Uppers) : Uppers[i] = c]
    ELSE c

RECURSIVE ToLower(_)
ToLower(s) == IF s = "" THEN "" ELSE LowerCh(Ch(s, 1)) \o ToLower(From(s, 2))

RECURSIVE TrimLeft(_)
TrimLeft(s) ==
    IF s # "" /\ IsSpace(Ch(s, 1)) THEN TrimLeft(From(s, 2)) ELSE s

RECURSIVE TrimRight(_)
TrimRight(s) ==
    IF s # "" /\ IsSpace(Ch(s, Len(s)))
    THEN TrimRight(SubSeq(s, 1, Len(s) - 1))
    ELSE s

\* String.prototype.trim
Trim(s) == TrimRight(TrimLeft(s))

\* String.prototype.includes
Includes(s, t) ==
    \E i \in 1..(Len(s) - Len(t) + 1) : SubSeq(s, i, i + Len(t) - 1) = t

\* t occurs in s at position i
StartsAt(s, i, t) ==
    /\ i + Len(t) - 1 <= Len(s)
    /\ SubSeq(s, i, i + Len(t) - 1) = t

\* first position >= i that holds no whitespace (greedy \s*)
RECURSIVE SkipSpaces(_, _)
SkipSpaces(s, i) ==
    IF i <= Len(s) /\ IsSpace(Ch(s, i)) THEN SkipSpaces(s, i + 1) ELSE i

\* first position >= i that holds no digit (greedy \d*)
RECURSIVE SkipDigits(_, _)
SkipDigits(s, i) ==
    IF i <= Len(s) /\ IsDigit(Ch(s, i)) THEN SkipDigits(s, i + 1) ELSE i

\* first position >= i that holds no word character (greedy \w*)
RECURSIVE SkipWord(_, _)
SkipWord(s, i) ==
    IF i <= Len(s) /\ IsWordChar(Ch(s, i)) THEN SkipWord(s, i + 1) ELSE i

\* .+ up to the end: s[i..] is non-empty and holds no line end
DotPlusToEnd(s, i) ==
    /\ i <= Len(s)
    /\ \A k \in i..Len(s) : ~IsLineEnd(Ch(s, k))

\* s.replace(/\s+/g, ' ')
RECURSIVE CollapseSpaces(_)
CollapseSpaces(s) ==
    IF s = "" THEN ""
    ELSE IF IsSpace(Ch(s, 1))
         THEN " " \o CollapseSpaces(From(s, SkipSpaces(s, 1)))
         ELSE Ch(s, 1) \o CollapseSpaces(From(s, 2))

(***************************************************************************)
(* Numbers                                                                 *)
(***************************************************************************)
Num(v) == [nan |-> FALSE, v |-> v]

NaN == [nan |-> TRUE, v |-> 0]

\* a * b of two JavaScript numbers
Mul(a, b) == IF a.nan \/ b.nan THEN NaN ELSE Num(a.v * b.v)

\* a >= 0, which is false of NaN
GeqZero(a) == ~a.nan /\ a.v >= 0

\* a > 0, which is false of NaN
GtZero(a) == ~a.nan /\ a.v > 0

RECURSIVE DigitsValue(_)
DigitsValue(s) ==
    IF s = "" THEN 0
    ELSE 10 * DigitsValue(SubSeq(s, 1, Len(s) - 1)) + DigitVal(Ch(s, Len(s)))

\* end (exclusive) of the greedy match of \d+(?:\.\d+)? at position 1, or 1
NumberEnd(s) ==
    LET e == SkipDigits(s, 1)
    IN  IF e = 1 THEN 1
        ELSE IF e + 1 <= Len(s) /\ Ch(s, e) = "." /\ IsDigit(Ch(s, e + 1))
             THEN SkipDigits(s, e + 1)
             ELSE e

\* parseFloat of a string matched by \d+(?:\.\d+)?, in tenths
ParseFloat(t) ==
    LET e == SkipDigits(t, 1)
    IN  Num(10 * DigitsValue(SubSeq(t, 1, e - 1))
            + (IF e < Len(t) THEN DigitVal(Ch(t, e + 1)) ELSE 0))

(***************************************************************************)
(* JavaScript objects used as tables.  A table is the sequence of its own  *)
(* <<key, value>> entries in insertion order; obj[key] also finds what the *)
(* object inherits from Object.prototype.                                  *)
(***************************************************************************)
ObjectPrototypeKeys ==
    {"constructor", "__proto__", "toString", "valueOf", "hasOwnProperty",
     "isPrototypeOf", "propertyIsEnumerable", "toLocaleString"}

HasOwn(table, key) == \E i \in 1..Len(table) : table[i][1] = key

Own(table, key) == table[CHOOSE i \in 1..Len(table) : table[i][1] = key][2]

\* table[key] for a table of numbers
Get(table, key) ==
    IF HasOwn(table, key) THEN [kind |-> "number", v |-> Own(table, key)]
    ELSE IF key \in ObjectPrototypeKeys THEN [kind |-> "object", v |-> 0]
    ELSE [kind |-> "undefined", v |-> 0]

\* the value in a condition
Truthy(x) == x.kind = "object" \/ (x.kind = "number" /\ x.v # 0)

\* the value as an operand of *
ToNumber(x) == IF x.kind = "number" THEN Num(x.v) ELSE NaN

(***************************************************************************)
(* IngredientParser: tables                                                *)
(***************************************************************************)
\* this.ingredientWeights, kg per item in 1e-5
ingredientWeights ==
    << <<"onion", 15000>>, <<"onions", 15000>>, <<"shallot", 5000>>,
       <<"shallots", 5000>>, <<"carrot", 10000>>, <<"carrots", 10000>>,
       <<"turnip", 25000>>, <<"turnips", 25000>>, <<"celeriac", 80000>>,
       <<"potato", 15000>>, <<"potatoes", 15000>>,
       <<"sprig", 200>>, <<"sprigs", 200>>, <<"thyme", 200>>,
       <<"oregano", 200>>, <<"rosemary", 200>>, <<"parsley", 200>>,
       <<"basil", 200>>,
       <<"egg", 6000>>, <<"eggs", 6000>>, <<"egg yolk", 2000>>,
       <<"egg yolks", 2000>>, <<"egg white", 4000>>, <<"egg whites", 4000>>,
       <<"lemon", 10000>>, <<"lemons", 10000>>, <<"lime", 5000>>,
       <<"limes", 5000>>, <<"apple", 18000>>, <<"apples", 18000>>,
       <<"piece", 10000>>, <<"pieces", 10000>> >>

\* this.unitConversions.volume, liters in 1e-5
volumeUnits ==
    << <<"ml", 100>>, <<"milliliter", 100>>, <<"millilitre", 100>>,
       <<"l", 100000>>, <<"liter", 100000>>, <<"litre", 100000>>,
       <<"cup", 23700>>, <<"cups", 23700>>,
       <<"tbsp", 1480>>, <<"tablespoon", 1480>>, <<"tablespoons", 1480>>,
       <<"tbs", 1480>>,
       <<"tsp", 493>>, <<"teaspoon", 493>>, <<"teaspoons", 493>>,
       <<"fl oz", 2960>>, <<"fluid ounce", 2960>>,
       <<"pint", 47300>>, <<"quart", 94600>> >>

\* this.unitConversions.weight, kg in 1e-5
weightUnits ==
    << <<"g", 100>>, <<"gram", 100>>, <<"grams", 100>>,
       <<"kg", 100000>>, <<"kilogram", 100000>>, <<"kilograms", 100000>>,
       <<"oz", 2830>>, <<"ounce", 2830>>, <<"ounces", 2830>>,
       <<"lb", 45400>>, <<"pound", 45400>>, <<"pounds", 45400>>,
       <<"lbs", 45400>> >>

\* this.unitConversions.special, kg in 1e-5
specialUnits ==
    << <<"pinch", 100>>, <<"dash", 600>>, <<"sprinkle", 200>>,
       <<"hint", 50>>, <<"touch", 50>>, <<"sprig", 200>>, <<"sprigs", 200>> >>

\* this.unitConversions.count, pieces in 1e-5
countUnits ==
    << <<"piece", 100000>>, <<"pieces", 100000>>, <<"item", 100000>>,
       <<"items", 100000>>, <<"whole", 100000>>, <<"each", 100000>>,
       <<"pc", 100000>>, <<"pcs", 100000>> >>

\* the unit alternation of patterns[0], in order; <<a, b>> is a\s*b
explicitUnitTokens ==
    << <<"kg", "">>, <<"g", "">>, <<"l", "">>, <<"ml", "">>, <<"cup", "">>,
       <<"cups", "">>, <<"tbsp", "">>, <<"tbs", "">>, <<"tablespoon", "">>,
       <<"tablespoons", "">>, <<"tsp", "">>, <<"teaspoon", "">>,
       <<"teaspoons", "">>, <<"oz", "">>, <<"ounce", "">>, <<"ounces", "">>,
       <<"lb", "">>, <<"pound", "">>, <<"pounds", "">>, <<"lbs", "">>,
       <<"fl", "oz">>, <<"fluid", "ounce">>, <<"pint", "">>, <<"quart", "">>,
       <<"liter", "">>, <<"litre", "">>, <<"milliliter", "">>,
       <<"millilitre", "">>, <<"gram", "">>, <<"grams", "">>,
       <<"kilogram", "">>, <<"kilograms", "">> >>

\* the unit alternation of patterns[1], in order
smallQuantityTokens ==
    << <<"pinch", "">>, <<"dash", "">>, <<"sprinkle", "">>, <<"hint", "">>,
       <<"touch", "">>, <<"sprig", "">>, <<"sprigs", "">> >>

\* descriptiveWords of _cleanIngredientName, in order
descriptiveWords ==
    <<"finely", "chopped", "diced", "sliced", "minced", "grated",
      "fresh", "dried", "frozen", "canned", "cooked", "raw",
      "free-range", "organic", "large", "small", "medium",
      "peeled", "skinless", "boneless", "whole", "ground">>

(***************************************************************************)
(* IngredientParser: the four patterns                                     *)
(***************************************************************************)
NoMatch == [ok |-> FALSE, length |-> 0, m1 |-> "", m2 |-> "", m3 |-> ""]

\* end (exclusive) of alternative alt matched at p ignoring case, 0 if none
TokenEnd(s, p, alt) ==
    IF ~StartsAt(ToLower(s), p, alt[1]) THEN 0
    ELSE IF alt[2] = "" THEN p + Len(alt[1])
    ELSE LET q == SkipSpaces(s, p + Len(alt[1]))
         IN  IF StartsAt(ToLower(s), q, alt[2]) THEN q + Len(alt[2]) ELSE 0

\* the token ends at e and \s+(.+)$ matches from there
RestFollows(s, e) ==
    /\ e > 0
    /\ e <= Len(s)
    /\ IsSpace(Ch(s, e))
    /\ DotPlusToEnd(s, SkipSpaces(s, e))

\* (number)\s*(token)\s+(.+)$ with the first alternative that lets the rest
\* match; m1 is "" when the optional number is absent
NumberTokenRest(s, tokens, numberOptional) ==
    LET ne   == NumberEnd(s)
        p    == SkipSpaces(s, ne)
        fits == {i \in 1..Len(tokens) : RestFollows(s, TokenEnd(s, p, tokens[i]))}
    IN  IF (ne = 1 /\ ~numberOptional) \/ fits = {} THEN NoMatch
        ELSE LET i == CHOOSE k \in fits : \A j \in fits : k <= j
                 e == TokenEnd(s, p, tokens[i])
             IN  [ok |-> TRUE, length |-> 4,
                  m1 |-> SubSeq(s, 1, ne - 1),
                  m2 |-> SubSeq(s, p, e - 1),
                  m3 |-> From(s, SkipSpaces(s, e))]

\* patterns[0]: /^(\d+(?:\.\d+)?)\s*(kg|g|...)\s+(.+)$/i
ExplicitUnitPattern(s) == NumberTokenRest(s, explicitUnitTokens, FALSE)

\* patterns[1]: /^(\d+(?:\.\d+)?)?\s*(pinch|dash|...)\s+(.+)$/i
SmallQuantityPattern(s) == NumberTokenRest(s, smallQuantityTokens, TRUE)

\* patterns[2]: /^(\d+(?:\.\d+)?)\s+(.+)$/i
BareCountPattern(s) ==
    LET ne == NumberEnd(s)
    IN  IF ne > 1 /\ ne <= Len(s) /\ IsSpace(Ch(s, ne))
           /\ DotPlusToEnd(s, SkipSpaces(s, ne))
        THEN [ok |-> TRUE, length |-> 3, m1 |-> SubSeq(s, 1, ne - 1),
              m2 |-> From(s, SkipSpaces(s, ne)), m3 |-> ""]
        ELSE NoMatch

\* patterns[3]: /^(.+)$/
NameOnlyPattern(s) ==
    IF DotPlusToEnd(s, 1)
    THEN [ok |-> TRUE, length |-> 2, m1 |-> s, m2 |-> "", m3 |-> ""]
    ELSE NoMatch

\* this.patterns, in order
patterns(s) ==
    <<ExplicitUnitPattern(s), SmallQuantityPattern(s), BareCountPattern(s),
      NameOnlyPattern(s)>>

(***************************************************************************)
(* IngredientParser: operations                                            *)
(***************************************************************************)
\* \b between positions i-1 and i of s
WordBoundary(s, i) ==
    LET before == i > 1 /\ IsWordChar(Ch(s, i - 1))
        after  == i <= Len(s) /\ IsWordChar(Ch(s, i))
    IN  before # after

\* s.replace(/\b(a1|a2|...)\b/gi, '') from position i on; ls is s in lower case
RECURSIVE RemoveFrom(_, _, _, _)
RemoveFrom(s, ls, i, alts) ==
    IF i > Len(s) THEN ""
    ELSE LET fits == {k \in 1..Len(alts) :
                        /\ WordBoundary(s, i)
                        /\ StartsAt(ls, i, alts[k])
                        /\ WordBoundary(s, i + Len(alts[k]))}
         IN  IF fits = {} THEN Ch(s, i) \o RemoveFrom(s, ls, i + 1, alts)
             ELSE LET k == CHOOSE a \in fits : \A b \in fits : a <= b
                  IN  RemoveFrom(s, ls, i + Len(alts[k]), alts)

RemoveWords(s, alts) == RemoveFrom(s, ToLower(s), 1, alts)

\* the loop of _cleanIngredientName over descriptiveWords[i..]
RECURSIVE StripDescriptive(_, _)
StripDescriptive(s, i) ==
    IF i > Len(descriptiveWords) \/ s = "" THEN s
    ELSE StripDescriptive(Trim(RemoveWords(s, <<descriptiveWords[i]>>)), i + 1)

_cleanIngredientName(ingredient) ==
    Trim(CollapseSpaces(StripDescriptive(ingredient, 1)))

\* unit.toLowerCase().replace(/\s+/g, ' ').trim()
CleanUnit(unit) == Trim(CollapseSpaces(ToLower(unit)))

_getUnitType(unit) ==
    LET cleanUnit == CleanUnit(unit)
    IN  IF Truthy(Get(weightUnits, cleanUnit)) THEN "weight"
        ELSE IF Truthy(Get(volumeUnits, cleanUnit)) THEN "volume"
        ELSE IF Truthy(Get(specialUnits, cleanUnit)) THEN "special"
        ELSE IF Truthy(Get(countUnits, cleanUnit)) THEN "count"
        ELSE "unknown"

_normalizeToStandardUnit(quantity, unit, unitType) ==
    LET cleanUnit == CleanUnit(unit)
    IN  CASE unitType = "weight" ->
               [quantity |-> Mul(quantity, ToNumber(Get(weightUnits, cleanUnit))),
                unit |-> "kg"]
          [] unitType = "volume" ->
               [quantity |-> Mul(quantity, ToNumber(Get(volumeUnits, cleanUnit))),
                unit |-> "liter"]
          [] unitType = "special" ->
               [quantity |-> Mul(quantity, ToNumber(Get(specialUnits, cleanUnit))),
                unit |-> "kg"]
          [] unitType = "count" ->
               [quantity |-> Mul(quantity, ToNumber(Get(countUnits, cleanUnit))),
                unit |-> "piece"]
          [] OTHER ->
               [quantity |-> Mul(quantity, Num(100000)), unit |-> "piece"]

\* the value _getRealisticWeight returns
_getRealisticWeight(ingredientName) ==
    LET name    == Trim(ToLower(ingredientName))
        partial == {i \in 1..Len(ingredientWeights) :
                      \/ Includes(name, ingredientWeights[i][1])
                      \/ Includes(ingredientWeights[i][1], name)}
    IN  IF Truthy(Get(ingredientWeights, name)) THEN Get(ingredientWeights, name)
        ELSE IF partial # {}
             THEN [kind |-> "number",
                   v |-> ingredientWeights[CHOOSE i \in partial :
                                             \A j \in partial : i <= j][2]]
             ELSE Get(ingredientWeights, "piece")

_normalizeWithContext(quantity, unit, unitType, ingredient) ==
    IF unitType = "count"
    THEN [quantity |-> Mul(quantity, ToNumber(_getRealisticWeight(ingredient))),
          unit |-> "kg"]
    ELSE _normalizeToStandardUnit(quantity, unit, unitType)

\* parseFloat(match[1]) || 1, in tenths; "" stands for an absent group
QuantityOf(m1) ==
    IF m1 = "" THEN Num(10)
    ELSE IF ParseFloat(m1).v = 0 THEN Num(10) ELSE ParseFloat(m1)

_processMatch(match, original) ==
    LET quantity   == IF match.length = 2 THEN Num(10) ELSE QuantityOf(match.m1)
        unit       == IF match.length = 4 THEN Trim(ToLower(match.m2)) ELSE "piece"
        ingredient == IF match.length = 4 THEN Trim(match.m3)
                      ELSE IF match.length = 3 THEN Trim(match.m2)
                      ELSE Trim(match.m1)
        unitType   == _getUnitType(unit)
        normalized == _normalizeWithContext(quantity, unit, unitType, ingredient)
    IN  [original |-> original,
         quantity |-> quantity,
         unit |-> unit,
         unitType |-> unitType,
         ingredient |-> _cleanIngredientName(ingredient),
         normalizedQuantity |-> normalized.quantity,
         normalizedUnit |-> normalized.unit,
         parseSuccess |-> TRUE,
         fallbackUsed |-> FALSE]

\* a fallback record that reports a successful parse
FallbackAsParsed(trimmed) ==
    [original |-> trimmed,
     quantity |-> Num(10),
     unit |-> "piece",
     unitType |-> "count",
     ingredient |-> trimmed,
     normalizedQuantity |-> Num(1000000),
     normalizedUnit |-> "piece",
     parseSuccess |-> TRUE,
     fallbackUsed |-> FALSE]

\* the record parseIngredient returns when no pattern matches
Fallback(trimmed) ==
    [original |-> trimmed,
     quantity |-> Num(10),
     unit |-> "piece",
     unitType |-> "count",
     ingredient |-> trimmed,
     normalizedQuantity |-> Num(1000000),
     normalizedUnit |-> "piece",
     parseSuccess |-> FALSE,
     fallbackUsed |-> TRUE]

\* index of the first pattern that matches, 0 if none
FirstPattern(trimmed) ==
    LET ms   == patterns(trimmed)
        hits == {i \in 1..Len(ms) : ms[i].ok}
    IN  IF hits = {} THEN 0 ELSE CHOOSE i \in hits : \A j \in hits : i <= j

parseIngredient(ingredientString) ==
    LET trimmed == Trim(ingredientString)
        first   == FirstPattern(trimmed)
    IN  IF first = 0 THEN Fallback(trimmed)
        ELSE _processMatch(patterns(trimmed)[first], trimmed)

(***************************************************************************)
(* EstonianTranslationService                                              *)
(*                                                                         *)
(* Estonian letters outside ASCII are written "~", a character no input of *)
(* the model holds.                                                        *)
(***************************************************************************)
\* mockTranslations of _mockTranslateAPI: <<english, et, confidence>>
mockTranslations ==
    << <<"exotic spice", "eksootilised v~rtsid", "medium">>,
       <<"sumac", "sumaki", "low">>,
       <<"turmeric", "kurkum", "high">>,
       <<"cardamom", "kardemon", "high">>,
       <<"star anise", "t~htkaniis", "medium">>,
       <<"fennel seeds", "aedrohu seemned", "medium">>,
       <<"bay leaves", "loorberilehed", "high">>,
       <<"lime juice", "laimimahl", "high">>,
       <<"coconut milk", "kookospiim", "high">>,
       <<"fish sauce", "kalakaste", "medium">>,
       <<"sesame oil", "seesami~li", "high">> >>

\* this.contextualHints, in order
contextualHints ==
    << <<"stock", "buljong">>, <<"broth", "puljong">>, <<"sauce", "kaste">>,
       <<"paste", "pasta">>, <<"powder", "pulber">>, <<"fresh", "v~rske">>,
       <<"dried", "kuivatatud">>, <<"ground", "jahvatatud">>,
       <<"chopped", "hakitud">>, <<"sliced", "viilutatud">> >>

\* position of the first occurrence of t in s (s includes t)
IndexOf(s, t) ==
    CHOOSE i \in 1..(Len(s) - Len(t) + 1) :
        /\ StartsAt(s, i, t)
        /\ \A j \in 1..(i - 1) : ~StartsAt(s, j, t)

\* s.replace(t, u) for a string t that s includes
ReplaceFirst(s, t, u) ==
    SubSeq(s, 1, IndexOf(s, t) - 1) \o u \o From(s, IndexOf(s, t) + Len(t))

\* _tryContextualTranslation: <<>> for null, else << the translation >>
_tryContextualTranslation(ingredient) ==
    LET hits == {i \in 1..Len(contextualHints) :
                   Includes(ingredient, contextualHints[i][1])}
    IN  IF hits = {} THEN <<>>
        ELSE LET i == CHOOSE k \in hits : \A j \in hits : k <= j
             IN  <<ReplaceFirst(ingredient, contextualHints[i][1],
                                contextualHints[i][2])>>

\* the value undefined where the model holds strings
undefined == "<undefined>"

\* what _mockTranslateAPI resolves to
_mockTranslateAPI(englishIngredient) ==
    LET ingredient == Trim(ToLower(englishIngredient))
        hits       == {i \in 1..Len(mockTranslations) :
                         mockTranslations[i][1] = ingredient}
        contextual == _tryContextualTranslation(ingredient)
    IN  IF hits # {}
        THEN LET t == mockTranslations[CHOOSE i \in hits : TRUE]
             IN  [original |-> englishIngredient, translated |-> t[2],
                  confidence |-> t[3], source |-> "api_translation",
                  success |-> TRUE]
        ELSE IF ingredient \in ObjectPrototypeKeys
        THEN [original |-> englishIngredient, translated |-> undefined,
              confidence |-> undefined, source |-> "api_translation",
              success |-> TRUE]
        ELSE IF contextual # <<>>
        THEN [original |-> englishIngredient, translated |-> contextual[1],
              confidence |-> "medium", source |-> "contextual_translation",
              success |-> TRUE]
        ELSE [original |-> englishIngredient, translated |-> englishIngredient,
              confidence |-> "failed", source |-> "no_translation",
              success |-> FALSE]

\* the catch branch of translateIngredient
TranslationError(englishIngredient) ==
    [original |-> englishIngredient, translated |-> englishIngredient,
     confidence |-> "failed", source |-> "error", success |-> FALSE]

\* translationCache.has(cacheKey), the cache being a set of <<key, result>>
CacheHas(cache, englishIngredient) ==
    \E e \in cache : e[1] = Trim(ToLower(englishIngredient))

CacheGet(cache, englishIngredient) ==
    (CHOOSE e \in cache : e[1] = Trim(ToLower(englishIngredient)))[2]

\* translationCache.set(cacheKey, result)
CacheSet(cache, englishIngredient, result) ==
    {e \in cache : e[1] # Trim(ToLower(englishIngredient))}
        \cup {<<Trim(ToLower(englishIngredient)), result>>}

\* what translateIngredient resolves to: the memoized result when the cache
\* held one at the call, the error record when the API call raises, else the
\* API's answer
translateIngredient(englishIngredient, cacheHit, cache, raises) ==
    IF cacheHit /\ CacheHas(cache, englishIngredient)
    THEN CacheGet(cache, englishIngredient)
    ELSE IF raises THEN TranslationError(englishIngredient)
    ELSE _mockTranslateAPI(englishIngredient)

(***************************************************************************)
(* EstonianPriceProvider: translation cascade                              *)
(***************************************************************************)
\* this.estonianIngredients, in order: <<english, et, category>>
estonianIngredients ==
    << <<"milk", "piim", "dairy">>, <<"butter", "v~i", "dairy">>,
       <<"eggs", "munad", "dairy">>, <<"egg", "muna", "dairy">>,
       <<"egg yolk", "munakollane", "dairy">>,
       <<"egg yolks", "munakollased", "dairy">>,
       <<"cheese", "juust", "dairy">>, <<"cream", "koor", "dairy">>,
       <<"chicken", "kana", "meat">>, <<"beef", "veiseliha", "meat">>,
       <<"pork", "sealiha", "meat">>, <<"lamb", "lambaliha", "meat">>,
       <<"lamb loin", "lambaliha", "meat">>,
       <<"lamb loin chops", "lambaliha", "meat">>,
       <<"fish", "kala", "meat">>,
       <<"chicken stock", "kanabuljong", "cooking">>,
       <<"beef stock", "lihabuljong", "cooking">>,
       <<"stock", "buljong", "cooking">>,
       <<"potatoes", "kartulid", "vegetables">>,
       <<"potato", "kartulit", "vegetables">>,
       <<"charlotte potatoes", "kartulid", "vegetables">>,
       <<"tomatoes", "tomatid", "vegetables">>,
       <<"tomato", "tomat", "vegetables">>,
       <<"onions", "sibulad", "vegetables">>,
       <<"onion", "sibul", "vegetables">>,
       <<"shallots", "sibulad", "vegetables">>,
       <<"shallot", "sibul", "vegetables">>,
       <<"carrots", "porgandid", "vegetables">>,
       <<"carrot", "porgand", "vegetables">>,
       <<"turnips", "kaalikas", "vegetables">>,
       <<"turnip", "kaalikas", "vegetables">>,
       <<"celeriac", "juurkeller", "vegetables">>,
       <<"celery", "seller", "vegetables">>,
       <<"green beans", "rohelised oad", "vegetables">>,
       <<"beans", "oad", "vegetables">>,
       <<"thyme", "liivatee", "herbs">>, <<"oregano", "oregano", "herbs">>,
       <<"rosemary", "rosmariini", "herbs">>,
       <<"parsley", "petersell", "herbs">>, <<"basil", "basiilik", "herbs">>,
       <<"dill", "till", "herbs">>, <<"salt", "sool", "spices">>,
       <<"pepper", "pipar", "spices">>,
       <<"black pepper", "must pipar", "spices">>,
       <<"oil", "~li", "cooking">>, <<"olive oil", "oliivi~li", "cooking">>,
       <<"rapeseed oil", "raps~li", "cooking">>,
       <<"flour", "jahu", "grains">>, <<"plain flour", "jahu", "grains">>,
       <<"wheat flour", "nisujahu", "grains">>,
       <<"whole wheat", "t~istera nisu", "grains">>,
       <<"wheat", "nisu", "grains">>, <<"bread", "leib", "bakery">>,
       <<"sugar", "suhkur", "baking">>, <<"caster sugar", "suhkur", "baking">>,
       <<"wine", "vein", "alcohol">>, <<"white wine", "valge vein", "alcohol">>,
       <<"red wine", "punane vein", "alcohol">>,
       <<"pastry", "taigen", "baking">>,
       <<"puff pastry", "lehttaigen", "baking">>,
       <<"mustard", "sinep", "condiments">>,
       <<"apples", "~unad", "fruits">>, <<"bananas", "banaanid", "fruits">>,
       <<"rice", "riis", "grains">>, <<"pasta", "pasta", "grains">> >>

\* the alternation of the second replace of _normalizeIngredient, in order
normalizeStopWords ==
    <<"cup", "cups", "tsp", "tbsp", "tablespoon", "teaspoon", "pound",
      "pounds", "lb", "oz", "ounce", "clove", "cloves", "sprig", "sprigs",
      "leaf", "leaves", "fresh", "dried", "chopped", "diced", "minced",
      "crushed", "peeled", "large", "medium", "small", "red", "white",
      "green", "yellow", "cooked", "raw", "whole", "ground", "sliced",
      "grated", "shredded", "can", "pot", "handful", "to serve", "garnish",
      "finely", "roughly">>

\* end (exclusive) of the match of /^\d+[\s\/]*\w*\s+/ in s, 1 if none: the
\* first match in the order of greedy \d+, greedy [\s\/]*, greedy \w*
QuantityPrefixEnd(s) ==
    LET IsSep(c) == IsSpace(c) \/ c = "/"
        cands == {t \in (2..Len(s)) \X (2..Len(s)) \X (2..Len(s)) :
                    /\ t[1] <= t[2] /\ t[2] <= t[3]
                    /\ \A k \in 1..(t[1] - 1) : IsDigit(Ch(s, k))
                    /\ \A k \in t[1]..(t[2] - 1) : IsSep(Ch(s, k))
                    /\ \A k \in t[2]..(t[3] - 1) : IsWordChar(Ch(s, k))
                    /\ IsSpace(Ch(s, t[3]))}
        Before(a, b) ==
            \/ a[1] > b[1]
            \/ a[1] = b[1] /\ a[2] > b[2]
            \/ a[1] = b[1] /\ a[2] = b[2] /\ a[3] >= b[3]
    IN  IF cands = {} THEN 1
        ELSE SkipSpaces(s, (CHOOSE a \in cands : \A b \in cands : Before(a, b))[3])

\* the cleaned name of _normalizeIngredient
CleanedName(ingredient) ==
    LET lower == ToLower(ingredient)
        rest  == From(lower, QuantityPrefixEnd(lower))
    IN  Trim(CollapseSpaces(RemoveWords(rest, normalizeStopWords)))

\* the unsorted entries, for comparison
UnsortedEntries(entries) == entries

\* entries.sort(([a], [b]) => b.length - a.length): a stable sort by key
\* length, longest first
SortByKeyLength(entries) ==
    LET Rank(i) == Cardinality({j \in 1..Len(entries) :
                       \/ Len(entries[j][1]) > Len(entries[i][1])
                       \/ Len(entries[j][1]) = Len(entries[i][1]) /\ j <= i})
    IN  [p \in 1..Len(entries) |->
            entries[CHOOSE i \in 1..Len(entries) : Rank(i) = p]]

\* the entries in the order the legacy tier searches them
estonianSorted == SortByKeyLength(estonianIngredients)

\* ([key, data]) => cleaned.includes(key) || cleaned.includes(data.et)
EntryMatches(entry, cleaned) ==
    Includes(cleaned, entry[1]) \/ Includes(cleaned, entry[2])

\* estonianMatch: <<>> for undefined, else << the entry found >>
LegacyMatch(cleaned) ==
    LET hits == {i \in 1..Len(estonianSorted) :
                   EntryMatches(estonianSorted[i], cleaned)}
    IN  IF hits = {} THEN <<>>
        ELSE <<estonianSorted[CHOOSE i \in hits : \A j \in hits : i <= j]>>

(***************************************************************************)
(* Parser runs: one call of parseIngredient on one input line.             *)
(***************************************************************************)
\* the numbers input lines write, with their value in tenths
WrittenNumbers ==
    << <<"0", 0>>, <<"1", 10>>, <<"2", 20>>, <<"1.5", 15>>, <<"24", 240>>,
       <<"400", 4000>> >>

\* unit spellings in another case, with the alias they spell
CaseVariants ==
    << <<"KG", "kg">>, <<"G", "g">>, <<"Ml", "ml">>, <<"L", "l">>,
       <<"Tbs", "tbs">>, <<"Cups", "cups">>, <<"Fl Oz", "fl oz">>,
       <<"fl  oz", "fl oz">> >>

Keys(table) == {table[i][1] : i \in 1..Len(table)}

\* <<spelling, alias>> of every mass or volume unit an input line may write
WrittenUnits ==
    {<<k, k>> : k \in Keys(weightUnits) \cup Keys(volumeUnits)}
        \cup {CaseVariants[i] : i \in 1..Len(CaseVariants)}

WrittenTokens ==
    {<<k, k>> : k \in Keys(specialUnits)} \cup {<<"Pinch", "pinch">>, <<"DASH", "dash">>}

ExplicitNames == {"Beef", "Red Wine"}

SmallNames == {"Salt", "fresh thyme"}

\* descriptors before the name of a bare-count line
Descriptors == {"", "chopped ", "large ", "free-range ", "finely sliced "}

\* names of bare-count lines: in the weight table, part of a key, or unknown
CountNames ==
    {"Carrots", "Onion", "Egg Yolks", "egg", "shallots", "turnips", "celeriac",
     "lime", "mangoes", "Beef"}

\* lines of no particular form
OtherLines ==
    {"", "   ", " \n ", "Salt\nPepper", "2 eggs\n1 onion", "Salt", "Pepper",
     "constructor", "2 constructor", "__proto__", "2 floz Milk",
     "2 fluidounce Milk", "3 fluid ounce Milk", "2kgs Beef", "1 kg",
     "2 Pints milk", "2pinch salt", "1.5.2 kg Beef", "a pinch of salt",
     "  1 finely sliced Onion  ", "2 piece ginger", "1 l oz x", "1 large onion",
     "2kg cut into 3cm cubes lamb loin chops"}

Forms ==
    [kind : {"explicit"}, n : 1..Len(WrittenNumbers), sep : {"", " "},
     unit : WrittenUnits, name : ExplicitNames]
    \cup
    [kind : {"small"}, n : 0..Len(WrittenNumbers), sep : {" "},
     unit : WrittenTokens, name : SmallNames]
    \cup
    [kind : {"count"}, n : 1..Len(WrittenNumbers), sep : Descriptors,
     unit : {<<"", "">>}, name : CountNames]
    \cup
    [kind : {"other"}, n : {0}, sep : {""}, unit : {<<"", "">>},
     name : OtherLines]

\* the text of a form
LineOf(f) ==
    CASE f.kind = "explicit" ->
           WrittenNumbers[f.n][1] \o f.sep \o f.unit[1] \o " " \o f.name
      [] f.kind = "small" ->
           (IF f.n = 0 THEN "" ELSE WrittenNumbers[f.n][1] \o f.sep)
               \o f.unit[1] \o " " \o f.name
      [] f.kind = "count" ->
           WrittenNumbers[f.n][1] \o " " \o f.sep \o f.name
      [] OTHER -> f.name

\* no price lookup runs
PricesIdle ==
    /\ activeSources = <<"selver", "rimi">>
    /\ snapshots = {}
    /\ clock = 0
    /\ recipe = <<>>
    /\ lookup = <<>>
    /\ answer = <<>>
    /\ tables = [calculations |-> {}, parsed |-> {}, ingredients |-> {}]
    /\ transaction = <<>>
    /\ storing = <<>>
    /\ sourcesCall = <<>>
    /\ dateNow = 1000
    /\ lastApiCall = 0
    /\ translating = <<>>

ProviderIdle ==
    /\ initialized = FALSE
    /\ dbOpen = FALSE
    /\ tableExists = FALSE
    /\ translations = {}
    /\ translationCache = {}
    /\ call = <<>>

ParserInit ==
    /\ form \in Forms
    /\ line = LineOf(form)
    /\ parsed = <<>>
    /\ ProviderIdle
    /\ PricesIdle

\* parser.parseIngredient(line)
ParseIngredient ==
    /\ parsed = <<>>
    /\ parsed' = <<parseIngredient(line)>>
    /\ UNCHANGED <<form, line>>
    /\ UNCHANGED providerVars
    /\ UNCHANGED <<priceVars, serviceVars>>

ParserNext == ParseIngredient

SpecParser == ParserInit /\ [][ParserNext]_vars

(***************************************************************************)
(* Properties of parseIngredient                                           *)
(***************************************************************************)
Ran == parsed # <<>>

\* the number an input line writes, in tenths
Written(f) == WrittenNumbers[f.n][2]

IsMass(alias) == alias \in Keys(weightUnits)

\* the factor of a mass or volume alias to kg or liter, in 1e-5
FactorOf(alias) ==
    IF IsMass(alias) THEN Own(weightUnits, alias) ELSE Own(volumeUnits, alias)

ExplicitUnitResult(f, r) ==
    /\ r.quantity = Num(Written(f))
    /\ r.normalizedUnit = (IF IsMass(f.unit[2]) THEN "kg" ELSE "liter")
    /\ r.normalizedQuantity = Num(Written(f) * FactorOf(f.unit[2]))

\* C1: every line "<n><optional space><unit> <name>" with a mass or volume
\* unit, in any case, is returned with quantity n, normalizedUnit kg (mass) or
\* liter (volume) and normalizedQuantity n times the unit's factor.
C1_ExplicitUnitNormalized ==
    (Ran /\ form.kind = "explicit") => ExplicitUnitResult(form, parsed[1])

\* C1 for the lines that write a number other than 0
C1_HoldsForNonZero ==
    (Ran /\ form.kind = "explicit" /\ Written(form) # 0)
        => ExplicitUnitResult(form, parsed[1])

\* the quantity a small-quantity line asks for: 1 when the number is omitted
SmallQuantity(f) == IF f.n = 0 THEN 10 ELSE Written(f)

SmallQuantityResult(f, r) ==
    /\ r.quantity = Num(SmallQuantity(f))
    /\ r.normalizedUnit = "kg"
    /\ r.normalizedQuantity = Num(SmallQuantity(f) * Own(specialUnits, f.unit[2]))

\* C2: every line "<optional n> <token> <name>" with a small-quantity token is
\* returned with quantity n (1 when omitted), normalizedUnit kg and
\* normalizedQuantity n times the token's fixed gram-equivalent.
C2_SmallQuantityNormalized ==
    (Ran /\ form.kind = "small") => SmallQuantityResult(form, parsed[1])

\* C2 for the lines that omit the number or write one other than 0
C2_HoldsForNonZero ==
    (Ran /\ form.kind = "small" /\ SmallQuantity(form) # 0)
        => SmallQuantityResult(form, parsed[1])

\* the per-item masses the mass-estimate table gives a name: its own entry,
\* else the entries that hold the name or are held by it, else 0.1 kg
MassEstimates(name) ==
    LET partial == {i \in 1..Len(ingredientWeights) :
                      \/ Includes(name, ingredientWeights[i][1])
                      \/ Includes(ingredientWeights[i][1], name)}
    IN  IF HasOwn(ingredientWeights, name) THEN {Own(ingredientWeights, name)}
        ELSE IF partial # {} THEN {ingredientWeights[i][2] : i \in partial}
        ELSE {10000}

BareCountResult(f, r) ==
    /\ r.normalizedUnit = "kg"
    /\ \E w \in MassEstimates(ToLower(f.name)) :
          r.normalizedQuantity = Num(Written(f) * w)

\* C3: every bare-count line "<n> <descriptors> <name>" is returned with
\* normalizedUnit kg and normalizedQuantity n times the per-item mass of the
\* name (exact entry first, then a substring match, else 0.1 kg).  Stated for
\* the lines that write a number other than 0.
C3_BareCountUsesMassEstimate ==
    (Ran /\ form.kind = "count" /\ Written(form) # 0)
        => BareCountResult(form, parsed[1])

\* C3 for the lines that write no descriptor and a number other than 0
C3_HoldsWithoutDescriptors ==
    (Ran /\ form.kind = "count" /\ form.sep = "" /\ Written(form) # 0)
        => BareCountResult(form, parsed[1])

NoGrammarMatches(s) == \A i \in 1..Len(patterns(s)) : ~patterns(s)[i].ok

ParsedIngredientFields ==
    {"original", "quantity", "unit", "unitType", "ingredient",
     "normalizedQuantity", "normalizedUnit", "parseSuccess", "fallbackUsed"}

\* C4: parseIngredient returns a record for every text, and for a line no
\* grammar interprets (and only for such a line) the record is the fallback:
\* quantity 1, unit piece, parseSuccess false, fallbackUsed true.
C4_FallbackInsteadOfError ==
    Ran =>
        /\ DOMAIN parsed[1] = ParsedIngredientFields
        /\ NoGrammarMatches(Trim(line)) =>
              /\ parsed[1].quantity = Num(10)
              /\ parsed[1].unit = "piece"
              /\ parsed[1].parseSuccess = FALSE
              /\ parsed[1].fallbackUsed = TRUE
        /\ parsed[1].fallbackUsed <=> NoGrammarMatches(Trim(line))

\* a line with an inner line end was parsed: no grammar interprets it
C4_Witness ==
    /\ Ran
    /\ Trim(line) # ""
    /\ NoGrammarMatches(Trim(line))
    /\ parsed[1].fallbackUsed

\* C5: every record returned has quantity > 0, normalizedQuantity >= 0 and
\* normalizedUnit one of kg, liter, piece.
C5_ParsedIngredientInvariant ==
    Ran =>
        /\ GtZero(parsed[1].quantity)
        /\ GeqZero(parsed[1].normalizedQuantity)
        /\ parsed[1].normalizedUnit \in {"kg", "liter", "piece"}

\* C5 for the lines whose name is no member of Object.prototype
C5_HoldsForOwnNames ==
    (Ran /\ Trim(ToLower(parsed[1].ingredient)) \notin ObjectPrototypeKeys)
        => /\ GtZero(parsed[1].quantity)
           /\ GeqZero(parsed[1].normalizedQuantity)
           /\ parsed[1].normalizedUnit \in {"kg", "liter", "piece"}

\* the grammar a form is written in: its position in the priority order
GrammarOf(f) ==
    CASE f.kind = "explicit" -> 1
      [] f.kind = "small" -> 2
      [] f.kind = "count" -> 3

\* C6: the result is the interpretation of the first grammar, in the order
\* explicit-unit, small-quantity, bare-count, name-only, that matches; and
\* "<n> fl oz <name>" is the volume unit fl oz, n times 0.0296 liter.
C6_FirstGrammarWins ==
    Ran =>
        /\ form.kind # "other" => FirstPattern(Trim(line)) = GrammarOf(form)
        /\ FirstPattern(Trim(line)) # 0 =>
              parsed[1] = _processMatch(patterns(Trim(line))[FirstPattern(Trim(line))],
                                        Trim(line))
        /\ (form.kind = "explicit" /\ form.unit[2] = "fl oz") =>
              /\ parsed[1].unitType = "volume"
              /\ parsed[1].normalizedUnit = "liter"
              /\ parsed[1].normalizedQuantity = Num(Written(form) * 2960)

\* C6 for the lines that write a number other than 0
C6_HoldsForNonZero ==
    (Ran /\ (form.kind = "explicit" => Written(form) # 0)) =>
        /\ form.kind # "other" => FirstPattern(Trim(line)) = GrammarOf(form)
        /\ (form.kind = "explicit" /\ form.unit[2] = "fl oz") =>
              /\ parsed[1].unitType = "volume"
              /\ parsed[1].normalizedUnit = "liter"
              /\ parsed[1].normalizedQuantity = Num(Written(form) * 2960)

(***************************************************************************)
(* EstonianPriceProvider: lookups                                          *)
(***************************************************************************)
\* most calls of getIngredientPrice in one run
MaxCalls == 2

\* rows createEstonianTranslations stores:
\* [english_name, estonian_name, category, confidence]
StoredRows ==
    {[english_name |-> "chicken stock", estonian_name |-> "kanapuljong",
      category |-> "liquids", confidence |-> "high"],
     [english_name |-> "soy sauce", estonian_name |-> "sojakaste",
      category |-> "condiments", confidence |-> "high"],
     [english_name |-> "garlic", estonian_name |-> "k~~slauk",
      category |-> "vegetables", confidence |-> "high"]}

\* the ingredient lines of the calls
Ingredients ==
    {"450ml chicken stock", "2 tbsp soy sauce", "1 tsp turmeric",
     "2 dragonfruit", "150ml white wine", "1 tortilla"}

cleanedOf == [i \in Ingredients |-> CleanedName(i)]

legacyOf == [i \in Ingredients |-> LegacyMatch(cleanedOf[i])]

\* DatabaseService.getQuery of the translation SELECT: rejected when db is
\* not set at the call or the table is missing, else the row or no row
getQuery(dbAtCall, table, rows, cleaned) ==
    LET found == {r \in rows : ToLower(r.english_name) = ToLower(cleaned)}
    IN  [rejected |-> ~dbAtCall \/ ~table,
         row |-> IF dbAtCall /\ table /\ found # {}
                 THEN <<CHOOSE r \in found : TRUE>> ELSE <<>>]

\* the record of the database tier
DatabaseResult(cleaned, row) ==
    [english |-> cleaned, estonian |-> row.estonian_name,
     category |-> IF row.category = "" THEN "other" ELSE row.category,
     searchTerm |-> row.estonian_name, translationFound |-> TRUE,
     confidence |-> IF row.confidence = "" THEN "high" ELSE row.confidence,
     translationSource |-> "database"]

\* the record of the legacy dictionary tier
LegacyResult(entry) ==
    [english |-> entry[1], estonian |-> entry[2], category |-> entry[3],
     searchTerm |-> entry[2], translationFound |-> TRUE,
     confidence |-> "high", translationSource |-> "legacy"]

\* the record of the API tier
ApiResult(cleaned, apiResult) ==
    [english |-> cleaned, estonian |-> apiResult.translated,
     category |-> "other", searchTerm |-> apiResult.translated,
     translationFound |-> TRUE, confidence |-> apiResult.confidence,
     translationSource |-> "api"]

\* a last record that claims a translation
PassthroughAsFound(cleaned) ==
    [english |-> cleaned, estonian |-> cleaned, category |-> "other",
     searchTerm |-> cleaned, translationFound |-> TRUE,
     confidence |-> "low", translationSource |-> "none"]

\* the record returned when no tier translated
Passthrough(cleaned) ==
    [english |-> cleaned, estonian |-> cleaned, category |-> "other",
     searchTerm |-> cleaned, translationFound |-> FALSE,
     confidence |-> "low", translationSource |-> "none"]

\* the legacy dictionary asked before the answer of the database is looked at
LegacyBeforeDatabase(cleaned, query, legacy) ==
    IF legacy # <<>>
    THEN [tier |-> "legacy", result |-> <<LegacyResult(legacy[1])>>]
    ELSE IF ~query.rejected /\ query.row # <<>>
    THEN [tier |-> "database",
          result |-> <<DatabaseResult(cleaned, query.row[1])>>]
    ELSE [tier |-> "api", result |-> <<>>]

\* _normalizeIngredient from the answer of getQuery up to the call of the
\* translator: the tier that answers, or "api" when the translator is called
DictionaryTiers(cleaned, query, legacy) ==
    IF ~query.rejected /\ query.row # <<>>
    THEN [tier |-> "database",
          result |-> <<DatabaseResult(cleaned, query.row[1])>>]
    ELSE IF legacy # <<>>
    THEN [tier |-> "legacy", result |-> <<LegacyResult(legacy[1])>>]
    ELSE [tier |-> "api", result |-> <<>>]

\* _normalizeIngredient after the translator answered
TranslatorTier(cleaned, apiResult) ==
    IF apiResult.success THEN ApiResult(cleaned, apiResult)
    ELSE Passthrough(cleaned)

ParserIdle ==
    /\ form = [kind |-> "idle", n |-> 0, sep |-> "", unit |-> <<"", "">>,
               name |-> ""]
    /\ line = ""
    /\ parsed = <<>>

\* a provider just constructed; the translation table is absent, empty or
\* filled by createEstonianTranslations
Init ==
    /\ ParserIdle
    /\ initialized = FALSE
    /\ dbOpen = FALSE
    /\ tableExists \in BOOLEAN
    /\ translations \in (IF tableExists THEN {{}, StoredRows} ELSE {{}})
    /\ translationCache = {}
    /\ call = <<>>
    /\ PricesIdle

\* getIngredientPrice(ingredient) up to the first await: the name is cleaned
\* and getQuery is called on the database as it is now
GetIngredientPrice(ingredient) ==
    /\ Len(call) < MaxCalls
    /\ call' = Append(call,
                 [pc |-> "query", ingredient |-> ingredient,
                  cleaned |-> cleanedOf[ingredient], dbAtCall |-> dbOpen,
                  rejected |-> FALSE, tier |-> "", cacheHit |-> FALSE,
                  apiFailed |-> FALSE, raised |-> FALSE,
                  normalized |-> <<>>])
    /\ UNCHANGED <<initialized, dbOpen, tableExists, translations,
                   translationCache>>
    /\ UNCHANGED parserVars
    /\ UNCHANGED <<priceVars, serviceVars>>

\* getQuery settles: the database tier and the legacy tier run, and if
\* neither answers translateIngredient is called and looks into its cache
QueryAnswer(c) ==
    /\ c \in 1..Len(call)
    /\ call[c].pc = "query"
    /\ LET query == getQuery(call[c].dbAtCall, tableExists, translations,
                             call[c].cleaned)
           tiers == DictionaryTiers(call[c].cleaned, query,
                                    legacyOf[call[c].ingredient])
       IN  call' = [call EXCEPT ![c] =
                      [@ EXCEPT !.pc = IF tiers.tier = "api" THEN "translate"
                                       ELSE "scrape",
                                !.rejected = query.rejected,
                                !.tier = tiers.tier,
                                !.cacheHit = tiers.tier = "api" /\
                                    CacheHas(translationCache, call[c].cleaned),
                                !.normalized = tiers.result]]
    /\ UNCHANGED <<initialized, dbOpen, tableExists, translations,
                   translationCache>>
    /\ UNCHANGED parserVars
    /\ UNCHANGED <<priceVars, serviceVars>>

\* translateIngredient settles; raises says the API call threw
TranslateAnswer(c, raises) ==
    /\ c \in 1..Len(call)
    /\ call[c].pc = "translate"
    /\ raises => ~call[c].cacheHit
    /\ LET apiResult == translateIngredient(call[c].cleaned, call[c].cacheHit,
                                            translationCache, raises)
       IN  /\ call' = [call EXCEPT ![c] =
                         [@ EXCEPT !.pc = "scrape",
                                   !.apiFailed = ~apiResult.success,
                                   !.raised = raises,
                                   !.normalized =
                                      <<TranslatorTier(call[c].cleaned,
                                                       apiResult)>>]]
           /\ translationCache' =
                 IF call[c].cacheHit \/ raises THEN translationCache
                 ELSE CacheSet(translationCache, call[c].cleaned, apiResult)
    /\ UNCHANGED <<initialized, dbOpen, tableExists, translations>>
    /\ UNCHANGED parserVars
    /\ UNCHANGED <<priceVars, serviceVars>>

\* _ensureInitialized up to its await: db.initialize() sets db at once
EnsureInitialized(c) ==
    /\ c \in 1..Len(call)
    /\ call[c].pc = "scrape"
    /\ IF initialized
       THEN /\ call' = [call EXCEPT ![c] = [@ EXCEPT !.pc = "done"]]
            /\ UNCHANGED dbOpen
       ELSE /\ call' = [call EXCEPT ![c] = [@ EXCEPT !.pc = "initialize"]]
            /\ dbOpen' = TRUE
    /\ UNCHANGED <<initialized, tableExists, translations, translationCache>>
    /\ UNCHANGED parserVars
    /\ UNCHANGED <<priceVars, serviceVars>>

\* db.initialize() settles
InitializeDone(c) ==
    /\ c \in 1..Len(call)
    /\ call[c].pc = "initialize"
    /\ initialized' = TRUE
    /\ call' = [call EXCEPT ![c] = [@ EXCEPT !.pc = "done"]]
    /\ UNCHANGED <<dbOpen, tableExists, translations, translationCache>>
    /\ UNCHANGED parserVars
    /\ UNCHANGED <<priceVars, serviceVars>>

Next ==
    \/ \E ingredient \in Ingredients : GetIngredientPrice(ingredient)
    \/ \E c \in 1..MaxCalls : QueryAnswer(c)
    \/ \E c \in 1..MaxCalls, raises \in BOOLEAN : TranslateAnswer(c, raises)
    \/ \E c \in 1..MaxCalls : EnsureInitialized(c)
    \/ \E c \in 1..MaxCalls : InitializeDone(c)

Spec == Init /\ [][Next]_vars

(***************************************************************************)
(* Properties of the translation cascade                                   *)
(***************************************************************************)
Calls == 1..Len(call)

\* the lookup of call c has returned
Resolved(c) == call[c].normalized # <<>>

SourceOf(c) == call[c].normalized[1].translationSource

\* the rows of the table that match the cleaned name of call c
PersistedMatches(c) ==
    {r \in translations : ToLower(r.english_name) = ToLower(call[c].cleaned)}

\* the persisted lookup of call c found a row
PersistedHit(c) ==
    call[c].dbAtCall /\ tableExists /\ PersistedMatches(c) # {}

\* the entries of the built-in dictionary that match a cleaned name
MatchingEntries(cleaned) ==
    {i \in 1..Len(estonianIngredients) :
        EntryMatches(estonianIngredients[i], cleaned)}

CleanedNames == {cleanedOf[i] : i \in Ingredients}

builtInOf == [cleaned \in CleanedNames |-> MatchingEntries(cleaned)]

BuiltInMatches(cleaned) == builtInOf[cleaned]

\* C7: a lookup answered by the built-in dictionary had no hit in the
\* persisted dictionary, and the translator is called (and its cache filled)
\* only for a name with no hit in the persisted and none in the built-in
\* dictionary.
C7_TiersInOrder ==
    /\ \A c \in Calls :
          /\ (Resolved(c) /\ SourceOf(c) = "legacy") => ~PersistedHit(c)
          /\ (call[c].pc = "translate"
                \/ (Resolved(c) /\ SourceOf(c) \in {"api", "none"}))
                => /\ ~PersistedHit(c)
                   /\ BuiltInMatches(call[c].cleaned) = {}
          /\ (Resolved(c) /\ PersistedHit(c)) => SourceOf(c) = "database"
    /\ \A e \in translationCache : BuiltInMatches(e[1]) = {}

\* the persisted dictionary was read, held rows but none for the name, the
\* built-in dictionary had none either, and the translator answered; another
\* lookup was answered by the built-in dictionary
C7_Witness ==
    \E c \in Calls :
        /\ Resolved(c)
        /\ call[c].dbAtCall /\ ~call[c].rejected /\ translations # {}
        /\ SourceOf(c) = "api"
        /\ \E d \in Calls : Resolved(d) /\ SourceOf(d) = "legacy"

\* C8: every lookup whose cleaned name has a row in the persisted dictionary
\* (compared without case) returns that row, with source database and
\* confidence high.
C8_PersistedEntryWins ==
    \A c \in Calls :
        (Resolved(c) /\ tableExists /\ PersistedMatches(c) # {})
            => /\ SourceOf(c) = "database"
               /\ call[c].normalized[1].confidence = "high"
               /\ \E r \in PersistedMatches(c) :
                     call[c].normalized[1].estonian = r.estonian_name

\* C8 holds for the lookups that start after some call opened the database.
C8_HoldsOnceDatabaseIsOpen ==
    \A c \in Calls :
        (Resolved(c) /\ call[c].dbAtCall /\ tableExists
            /\ PersistedMatches(c) # {})
            => /\ SourceOf(c) = "database"
               /\ call[c].normalized[1].confidence = "high"
               /\ \E r \in PersistedMatches(c) :
                     call[c].normalized[1].estonian = r.estonian_name

\* the steps a call can be at; none of them is a raised error
CallSteps == {"query", "translate", "scrape", "initialize", "done"}

\* C9: no lookup ends in an error: a rejected query goes on to the built-in
\* dictionary, a translator that failed or found nothing goes on to the
\* passthrough, and when no tier has a hit the record returned has estonian =
\* english = the cleaned name, translationFound false, confidence low and
\* source none.
C9_NeverRaisesAndPassesThrough ==
    \A c \in Calls :
        /\ call[c].pc \in CallSteps
        /\ (call[c].pc # "query" /\ call[c].rejected)
              => call[c].tier \in {"legacy", "api"}
        /\ call[c].pc \in {"scrape", "initialize", "done"} => Resolved(c)
        /\ (Resolved(c) /\ ~PersistedHit(c)
              /\ BuiltInMatches(call[c].cleaned) = {} /\ call[c].apiFailed)
              => /\ call[c].normalized[1].english = call[c].cleaned
                 /\ call[c].normalized[1].estonian = call[c].cleaned
                 /\ call[c].normalized[1].translationFound = FALSE
                 /\ call[c].normalized[1].confidence = "low"
                 /\ call[c].normalized[1].translationSource = "none"

\* the query of a lookup was rejected, its translator call threw for a name
\* the translator knows, and the lookup returned the passthrough
C9_Witness ==
    \E c \in Calls :
        /\ Resolved(c)
        /\ call[c].rejected
        /\ call[c].cleaned = "turmeric"
        /\ call[c].apiFailed
        /\ SourceOf(c) = "none"

C11_SameIngredientSameResult ==
    \A c \in Calls, d \in Calls :
        (Resolved(c) /\ Resolved(d) /\ call[c].ingredient = call[d].ingredient
            /\ ~call[c].raised /\ ~call[d].raised)
            => call[c].normalized = call[d].normalized

\* C11 holds for two lookups that both start before, or both start after,
\* the database is opened.
C11_HoldsForSameDatabaseState ==
    \A c \in Calls, d \in Calls :
        (Resolved(c) /\ Resolved(d) /\ call[c].ingredient = call[d].ingredient
            /\ ~call[c].raised /\ ~call[d].raised
            /\ call[c].dbAtCall = call[d].dbAtCall)
            => call[c].normalized = call[d].normalized

\* C28: for one provider DatabaseService.initialize is invoked a single
\* time, however many getIngredientPrice calls run at once: a call enters
\* db.initialize() only when no call has entered it before, so that every
\* call uses the one connection it opened
C28_InitializeInvokedOnce ==
    [][\A c \in 1..Len(call) :
          (call[c].pc = "scrape" /\ call'[c].pc = "initialize") => ~dbOpen]_vars

(***************************************************************************)
(* EstonianPriceProvider: prices                                           *)
(*                                                                         *)
(* Prices are in cents, costs before rounding in 1e-6 cents.               *)
(***************************************************************************)
\* this.fallbackPrices, in order: <<english, price, unit>>
fallbackPrices ==
    << <<"milk", 89, "liter">>, <<"butter", 289, "500g">>,
       <<"eggs", 245, "10pcs">>, <<"egg", 25, "piece">>,
       <<"egg yolk", 15, "piece">>, <<"egg yolks", 15, "piece">>,
       <<"cheese", 890, "kg">>, <<"cream", 189, "liter">>,
       <<"chicken", 599, "kg">>, <<"beef", 1299, "kg">>,
       <<"pork", 749, "kg">>, <<"lamb", 1699, "kg">>,
       <<"lamb loin", 1699, "kg">>, <<"lamb loin chops", 1699, "kg">>,
       <<"fish", 899, "kg">>, <<"chicken stock", 349, "liter">>,
       <<"beef stock", 449, "liter">>, <<"stock", 399, "liter">>,
       <<"potatoes", 129, "kg">>, <<"potato", 129, "kg">>,
       <<"charlotte potatoes", 149, "kg">>, <<"tomatoes", 349, "kg">>,
       <<"tomato", 349, "kg">>, <<"onions", 119, "kg">>,
       <<"onion", 119, "kg">>, <<"shallots", 289, "kg">>,
       <<"shallot", 289, "kg">>, <<"carrots", 139, "kg">>,
       <<"carrot", 139, "kg">>, <<"turnips", 189, "kg">>,
       <<"turnip", 189, "kg">>, <<"celeriac", 249, "kg">>,
       <<"celery", 329, "kg">>, <<"green beans", 499, "kg">>,
       <<"beans", 499, "kg">>, <<"thyme", 1599, "kg">>,
       <<"oregano", 1299, "kg">>, <<"rosemary", 1699, "kg">>,
       <<"parsley", 899, "kg">>, <<"basil", 1999, "kg">>,
       <<"dill", 999, "kg">>, <<"salt", 79, "kg">>, <<"pepper", 2499, "kg">>,
       <<"black pepper", 2499, "kg">>, <<"oil", 299, "liter">>,
       <<"olive oil", 499, "liter">>, <<"rapeseed oil", 279, "liter">>,
       <<"flour", 129, "kg">>, <<"plain flour", 129, "kg">>,
       <<"wheat flour", 139, "kg">>, <<"whole wheat", 189, "kg">>,
       <<"wheat", 189, "kg">>, <<"bread", 145, "loaf">>,
       <<"sugar", 149, "kg">>, <<"caster sugar", 159, "kg">>,
       <<"wine", 599, "liter">>, <<"white wine", 599, "liter">>,
       <<"red wine", 649, "liter">>, <<"pastry", 349, "kg">>,
       <<"puff pastry", 399, "kg">>, <<"mustard", 289, "kg">>,
       <<"apples", 229, "kg">>, <<"bananas", 179, "kg">>,
       <<"rice", 249, "kg">>, <<"pasta", 189, "500g">> >>

\* the price multiplier of each store's scraper, in percent
storeMultiplier == <<<<"selver", 100>>, <<"rimi", 95>>, <<"coop", 105>>>>

\* this.availableSources
availableSources == {"selver", "rimi", "coop"}

\* values of 0.85 + Math.random() * 0.3, in percent
Variations == {85, 114}

RECURSIVE SumPrices(_, _)

RECURSIVE SumCosts(_, _)

\* Math.round(n / d) for n >= 0 and d > 0
RoundDiv(n, d) == (2 * n + d) \div (2 * d)

\* the alternation of the second replace of _normalizeIngredientSync
syncStopWords ==
    <<"cup", "cups", "tsp", "tbsp", "tablespoon", "teaspoon", "pound",
      "pounds", "oz", "ounce", "clove", "cloves", "sprig", "sprigs", "leaf",
      "leaves", "fresh", "dried", "chopped", "diced", "minced", "crushed",
      "peeled", "large", "medium", "small", "red", "white", "green",
      "yellow">>

\* the english name _normalizeIngredientSync returns
_normalizeIngredientSync(ingredient) ==
    LET lower   == ToLower(ingredient)
        rest    == From(lower, QuantityPrefixEnd(lower))
        cleaned == Trim(CollapseSpaces(RemoveWords(rest, syncStopWords)))
        match   == LegacyMatch(cleaned)
    IN  IF match # <<>> THEN match[1][1] ELSE cleaned

\* the search terms the model prices
SearchTerms ==
    {"kanabuljong", "kanapuljong", "sool", "dragonfruit", "constructor"}

syncOf == [t \in SearchTerms |-> _normalizeIngredientSync(t)]

\* _normalizeIngredientSync(product).english, looked up for a search term
NormalizedProduct(product) ==
    IF product \in SearchTerms THEN syncOf[product]
    ELSE _normalizeIngredientSync(product)

\* this.fallbackPrices[english]: <<>> for undefined, else << [price, unit] >>;
\* an inherited property has neither a price nor a unit
FallbackPriceOf(english) ==
    LET hits == {i \in 1..Len(fallbackPrices) : fallbackPrices[i][1] = english}
    IN  IF hits # {}
        THEN LET e == fallbackPrices[CHOOSE i \in hits : TRUE]
             IN  <<[price |-> Num(e[2]), unit |-> e[3]]>>
        ELSE IF english \in ObjectPrototypeKeys
        THEN <<[price |-> NaN, unit |-> undefined]>>
        ELSE <<>>

\* _getRandomPrice(product, multiplier) when Math.random() gives variation
_getRandomPrice(product, multiplier, variation) ==
    LET fallbackPrice == FallbackPriceOf(NormalizedProduct(product))
    IN  IF fallbackPrice # <<>>
        THEN IF fallbackPrice[1].price.nan THEN NaN
             ELSE Num(RoundDiv(fallbackPrice[1].price.v * multiplier * variation,
                               10000))
        ELSE Num(RoundDiv(250 * multiplier * variation, 10000))

_getUnitForProduct(product) ==
    LET fallbackPrice == FallbackPriceOf(NormalizedProduct(product))
    IN  IF fallbackPrice # <<>> THEN fallbackPrice[1].unit ELSE "kg"

\* this.unitConversions[type], the empty table for a type it does not have
ConversionsOf(type) ==
    CASE type = "weight" -> weightUnits
      [] type = "volume" -> volumeUnits
      [] type = "special" -> specialUnits
      [] type = "count" -> countUnits
      [] OTHER -> <<>>

\* getConversionFactor: <<>> for null, else << <<numerator, denominator>> >>
getConversionFactor(fromUnit, toUnit) ==
    LET fromType    == _getUnitType(fromUnit)
        toType      == _getUnitType(toUnit)
        conversions == ConversionsOf(fromType)
        from        == Get(conversions, CleanUnit(fromUnit))
        to          == Get(conversions, CleanUnit(toUnit))
    IN  IF fromType # toType THEN <<>>
        ELSE IF fromType = "unknown" \/ ~Truthy(from) \/ ~Truthy(to) THEN <<>>
        ELSE IF from.kind # "number" \/ to.kind # "number" THEN <<>>
        ELSE << <<from.v, to.v>> >>

\* the fraction neededQuantity / normalizedQuantity of _calculateActualCost
NeededFactor(normalizedUnit, priceUnit) ==
    IF normalizedUnit = "kg" /\ priceUnit = "liter" THEN <<1, 1>>
    ELSE IF normalizedUnit = "liter" /\ priceUnit = "kg" THEN <<1, 1>>
    ELSE IF normalizedUnit # priceUnit
             /\ getConversionFactor(normalizedUnit, priceUnit) # <<>>
    THEN getConversionFactor(normalizedUnit, priceUnit)[1]
    ELSE <<1, 1>>

\* _calculateActualCost for the price priceSum / priceCount: the cost is
\* num / den, in 1e-6 cents
_calculateActualCost(parsedIngredient, priceSum, priceCount, priceUnit) ==
    LET f == NeededFactor(parsedIngredient.normalizedUnit, priceUnit)
    IN  IF parsedIngredient.normalizedQuantity.nan \/ priceSum.nan
        THEN [nan |-> TRUE, num |-> 0, den |-> 1]
        ELSE [nan |-> FALSE,
              num |-> parsedIngredient.normalizedQuantity.v * f[1] * priceSum.v,
              den |-> f[2] * priceCount]

\* Math.round(actualCost * 100) / 100, in cents
RoundCost(cost) ==
    IF cost.nan THEN NaN ELSE Num(RoundDiv(cost.num, cost.den * 1000000))

\* a + b of two JavaScript numbers
Add(a, b) == IF a.nan \/ b.nan THEN NaN ELSE Num(a.v + b.v)

\* a reduce that keeps the last price instead of adding it up
LastPriceOnly(results, n) == IF n = 0 THEN Num(0) ELSE results[n].price

\* results.reduce((sum, r) => sum + r.price, 0) over the first n results
SumPrices(results, n) ==
    IF n = 0 THEN Num(0) ELSE Add(SumPrices(results, n - 1), results[n].price)

\* the quote getIngredientPrice returns when results is not empty;
\* parsedIngredient is this.parser.parseIngredient(ingredient)
StoreQuote(ingredient, normalized, results, parsedIngredient) ==
    LET sum    == SumPrices(results, Len(results))
        actualCost == _calculateActualCost(parsedIngredient, sum, Len(results),
                                           results[1].unit)
        average == IF sum.nan THEN NaN ELSE Num(RoundDiv(sum.v, Len(results)))
    IN  [ingredient |-> ingredient,
         pricePerUnit |-> average,
         unit |-> results[1].unit,
         recipePortionCost |-> RoundCost(actualCost),
         parsedData |-> parsedIngredient,
         fullUnitCost |-> average,
         sources |-> [i \in 1..Len(results) |-> results[i].source],
         sourceCount |-> Len(results),
         translationFound |-> normalized.translationFound,
         confidence |-> normalized.confidence,
         dataSource |-> "store_scraping"]

\* the quote getIngredientPrice returns when results is empty
FallbackQuote(ingredient, normalized, parsedIngredient) ==
    LET found == FallbackPriceOf(normalized.english)
        fallbackPrice == IF found # <<>> THEN found[1]
                         ELSE [price |-> Num(250), unit |-> "kg"]
        actualCost == _calculateActualCost(parsedIngredient, fallbackPrice.price,
                                           1, fallbackPrice.unit)
    IN  [ingredient |-> ingredient,
         pricePerUnit |-> fallbackPrice.price,
         unit |-> fallbackPrice.unit,
         recipePortionCost |-> RoundCost(actualCost),
         parsedData |-> parsedIngredient,
         fullUnitCost |-> fallbackPrice.price,
         sources |-> <<"fallback">>,
         sourceCount |-> 0,
         translationFound |-> normalized.translationFound,
         confidence |-> IF normalized.translationFound THEN "medium" ELSE "low",
         dataSource |-> "fallback_price"]

(***************************************************************************)
(* DatabaseService: price_snapshots                                        *)
(***************************************************************************)
\* the maxAgeHours the scrapers pass to getCachedPrice
maxAgeHours == 24

SecondsPerHour == 3600

\* a freshness test that lets every row pass
IsFreshAtAnyAge(row, maxAge, now) == row.scraped_at <= now

\* datetime(scraped_at, '+maxAge hours') > datetime('now')
IsFresh(row, maxAge, now) == row.scraped_at + maxAge * SecondsPerHour > now

\* the rows the SELECT of getCachedPrice may return: the matching fresh rows
\* with the latest scraped_at; rows of one second are in no defined order
getCachedPrice(rows, storeName, ingredient, maxAge, now) ==
    LET matching == {r \in rows :
                       /\ r.store_name = storeName
                       /\ (r.ingredient = ingredient
                             \/ r.normalized_ingredient = ingredient)
                       /\ IsFresh(r, maxAge, now)}
    IN  {r \in matching : \A q \in matching : q.scraped_at <= r.scraped_at}

\* the row the INSERT of storePriceData adds
storePriceData(rows, storeName, ingredient, price, unit, now) ==
    [id |-> Cardinality(rows) + 1,
     store_name |-> storeName,
     ingredient |-> ingredient,
     normalized_ingredient |-> NormalizedProduct(ingredient),
     price |-> price,
     unit |-> unit,
     scraped_at |-> now]

(***************************************************************************)
(* Recipe cost runs: one calculateRecipeCost call on one provider, within   *)
(* one second                                                              *)
(***************************************************************************)
\* most ingredient lines of the recipe
MaxLines == 2

\* most steps of the clock by the maximal age of a cached price
MaxAges == 1

\* most getIngredientPrice calls of a run of single quotes
MaxQuotes == 2

\* the ingredient lines a recipe is made of
Lines == {"450ml chicken stock", "1 tsp salt", "2 dragonfruit", "constructor"}

\* the lines whose cost is compared with the amount needed
CostedLines == {"200g butter", "3 eggs", "1 tsp salt"}

\* the servings a caller asks for
Servings == {-2, 0, 3}

\* the servings argument of a call: left out, or a number
ServingsArguments == {<<>>} \cup {<<n>> : n \in Servings}

\* the ingredient lists: none, not an array, or an array of up to MaxLines
IngredientLists ==
    {[kind |-> "missing", lines |-> <<>>], [kind |-> "notArray", lines |-> <<>>]}
    \cup {[kind |-> "array", lines |-> l] :
             l \in UNION {[1..n -> Lines] : n \in 0..MaxLines}}

parsedOf == [i \in Lines \cup CostedLines |-> parseIngredient(i)]

\* the records _normalizeIngredient can return for an ingredient: the query
\* is rejected or answers from an empty or a filled table, and the
\* translator answers or throws
Resolutions(ingredient) ==
    LET cleaned == CleanedName(ingredient)
        legacy  == LegacyMatch(cleaned)
        tiers   == {DictionaryTiers(cleaned,
                                    getQuery(open, TRUE, rows, cleaned), legacy) :
                       open \in BOOLEAN, rows \in {{}, StoredRows}}
    IN  {t.result[1] : t \in {u \in tiers : u.tier # "api"}}
        \cup (IF \E t \in tiers : t.tier = "api"
              THEN {TranslatorTier(cleaned,
                       translateIngredient(cleaned, FALSE, {}, raises)) :
                       raises \in BOOLEAN}
              ELSE {})

resolutionsOf == [i \in Lines \cup CostedLines |-> Resolutions(i)]

\* the multiplier of a store's scraper
MultiplierOf(source) ==
    storeMultiplier[CHOOSE i \in 1..Len(storeMultiplier) :
                       storeMultiplier[i][1] = source][2]

\* a lookup goes on to the next active source, or to the quote after the last
NextSource(l) ==
    IF l.k < Len(activeSources) THEN [l EXCEPT !.pc = "read", !.k = l.k + 1]
    ELSE [l EXCEPT !.pc = "quote"]

PricesInit ==
    /\ ParserIdle
    /\ ProviderIdle
    /\ PricesIdle

\* calculateRecipeCost(ingredients, 'EE', servings) up to its await:
\* getMultipleIngredientPrices maps the lines to getIngredientPrice calls; a
\* list that is no array makes the call throw
StartRecipe(ingredients, asked, servings) ==
    /\ recipe' = <<[ingredients |-> ingredients,
                    asked |-> asked,
                    servings |-> servings,
                    pc |-> IF ingredients.kind = "array" THEN "pricing"
                           ELSE "raised",
                    result |-> <<>>]>>
    /\ lookup' = [i \in 1..Len(ingredients.lines) |->
                     [ingredient |-> ingredients.lines[i], pc |-> "resolve",
                      normalized |-> <<>>, k |-> 1, results |-> <<>>,
                      quote |-> <<>>, rank |-> 0]]

\* a caller in the process calls provider.calculateRecipeCost; the
\* parameter servings = 4 takes its default when the argument is left out
CalculateRecipeCost(ingredients, servings) ==
    /\ recipe = <<>>
    /\ StartRecipe(ingredients, servings,
                   IF servings = <<>> THEN 4 ELSE servings[1])
    /\ UNCHANGED <<activeSources, snapshots, clock, answer>>
    /\ UNCHANGED <<parserVars, providerVars, serviceVars>>

\* const targetServings = servings || 4
TargetServings(servings) ==
    IF servings = <<>> \/ servings[1] = 0 THEN 4 ELSE servings[1]

\* POST /api/prices/recipe with the body { ingredients, servings }
PostPricesRecipe(ingredients, servings) ==
    /\ recipe = <<>>
    /\ IF ingredients.kind # "array" \/ Len(ingredients.lines) = 0
       THEN /\ recipe' = <<[ingredients |-> ingredients,
                            asked |-> servings,
                            servings |-> TargetServings(servings),
                            pc |-> "rejected", result |-> <<>>]>>
            /\ UNCHANGED lookup
       ELSE StartRecipe(ingredients, servings, TargetServings(servings))
    /\ UNCHANGED <<activeSources, snapshots, clock, answer>>
    /\ UNCHANGED <<parserVars, providerVars, serviceVars>>

\* _normalizeIngredient returns to getIngredientPrice
Resolve(c, normalized) ==
    /\ c \in 1..Len(lookup)
    /\ lookup[c].pc = "resolve"
    /\ normalized \in resolutionsOf[lookup[c].ingredient]
    /\ lookup' = [lookup EXCEPT ![c] =
                    [@ EXCEPT !.normalized = <<normalized>>,
                              !.pc = IF Len(activeSources) = 0 THEN "quote"
                                     ELSE "read"]]
    /\ UNCHANGED <<activeSources, snapshots, clock, recipe, answer>>
    /\ UNCHANGED <<parserVars, providerVars, serviceVars>>

\* _scrapeSelver / _scrapeRimi / _scrapeCoop up to the answer of
\* getCachedPrice: _ensureInitialized opens the database, then the cache is
\* read; fails says one of the two threw
ScrapeRead(c, fails) ==
    /\ c \in 1..Len(lookup)
    /\ lookup[c].pc = "read"
    /\ dbOpen' = TRUE
    /\ initialized' = (initialized \/ ~fails)
    /\ LET l      == lookup[c]
           source == activeSources[l.k]
           term   == l.normalized[1].searchTerm
           found  == getCachedPrice(snapshots, source, term, maxAgeHours, clock)
       IN  IF fails
           THEN lookup' = [lookup EXCEPT ![c] = [l EXCEPT !.pc = "logFailure"]]
           ELSE IF found = {} \/ term = undefined
           THEN lookup' = [lookup EXCEPT ![c] = [l EXCEPT !.pc = "fetch"]]
           ELSE \E cached \in found :
                  lookup' = [lookup EXCEPT ![c] =
                     NextSource([l EXCEPT
                        !.results = Append(@, [source |-> source,
                            product |-> term, price |-> cached.price,
                            unit |-> cached.unit, cached |-> TRUE])])]
    /\ UNCHANGED <<activeSources, snapshots, clock, recipe, answer>>
    /\ UNCHANGED <<tableExists, translations, translationCache, call>>
    /\ UNCHANGED <<parserVars, serviceVars>>

\* the scraper after a cache miss: the price is fetched, stored with
\* storePriceData and logged with logScrapeAttempt; outcome says which of
\* the steps threw, if any.  A price that is NaN and a unit that is
\* undefined are bound as NULL, which the NOT NULL columns price and unit of
\* price_snapshots refuse
ScrapeFetch(c, variation, outcome) ==
    /\ c \in 1..Len(lookup)
    /\ lookup[c].pc = "fetch"
    /\ LET l      == lookup[c]
           source == activeSources[l.k]
           term   == l.normalized[1].searchTerm
           price  == _getRandomPrice(term, MultiplierOf(source), variation)
           unit   == _getUnitForProduct(term)
           row    == storePriceData(snapshots, source, term, price, unit, clock)
       IN  /\ term = undefined => outcome = "fetchThrows"
           /\ outcome \in {"ok", "logThrows"} =>
                 ~(price.nan \/ unit = undefined)
           /\ snapshots' = IF outcome \in {"ok", "logThrows"}
                           THEN snapshots \cup {row} ELSE snapshots
           /\ IF outcome = "ok"
              THEN lookup' = [lookup EXCEPT ![c] =
                      NextSource([l EXCEPT
                         !.results = Append(@, [source |-> source,
                             product |-> term, price |-> price,
                             unit |-> unit, cached |-> FALSE])])]
              ELSE lookup' = [lookup EXCEPT ![c] =
                      [l EXCEPT !.pc = "logFailure"]]
    /\ UNCHANGED <<activeSources, clock, recipe, answer>>
    /\ UNCHANGED <<parserVars, providerVars, serviceVars>>

\* the catch of the scraper: logScrapeAttempt is awaited, then null is
\* returned; fails says logScrapeAttempt threw, which getIngredientPrice
\* does not catch
ScrapeLogFailure(c, fails) ==
    /\ c \in 1..Len(lookup)
    /\ lookup[c].pc = "logFailure"
    /\ lookup' = [lookup EXCEPT ![c] =
                    IF fails THEN [lookup[c] EXCEPT !.pc = "raised"]
                    ELSE NextSource(lookup[c])]
    /\ UNCHANGED <<activeSources, snapshots, clock, recipe, answer>>
    /\ UNCHANGED <<parserVars, providerVars, serviceVars>>

\* getIngredientPrice after the loop over the sources; rank records the
\* order in which the calls of one Promise.all return
ReturnQuote(c) ==
    /\ c \in 1..Len(lookup)
    /\ lookup[c].pc = "quote"
    /\ LET l == lookup[c]
       IN  lookup' = [lookup EXCEPT ![c] =
              [l EXCEPT !.pc = "done",
                        !.rank = Cardinality({d \in 1..Len(lookup) :
                                    lookup[d].pc = "done"}) + 1,
                        !.quote = <<IF Len(l.results) > 0
                                    THEN StoreQuote(l.ingredient, l.normalized[1],
                                             l.results, parsedOf[l.ingredient])
                                    ELSE FallbackQuote(l.ingredient,
                                             l.normalized[1],
                                             parsedOf[l.ingredient])>>]]
    /\ UNCHANGED <<activeSources, snapshots, clock, recipe, answer>>
    /\ UNCHANGED <<parserVars, providerVars, serviceVars>>

\* ingredientPrices.reduce((sum, price) => sum + price.recipePortionCost, 0)
\* over the first n quotes
SumCosts(ingredientPrices, n) ==
    IF n = 0 THEN Num(0)
    ELSE Add(SumCosts(ingredientPrices, n - 1),
             ingredientPrices[n].recipePortionCost)

\* Math.round((totalCost / servings) * 100) / 100 in cents: 0 / 0 is NaN, a
\* division of another number by 0 is infinite, and Math.round rounds a
\* half towards plus infinity
CostPerServing(totalCost, servings) ==
    IF totalCost.nan \/ (servings = 0 /\ totalCost.v = 0)
    THEN [nan |-> TRUE, v |-> 0, infinite |-> FALSE]
    ELSE IF servings = 0
    THEN [nan |-> FALSE, v |-> 0, infinite |-> TRUE]
    ELSE [nan |-> FALSE, infinite |-> FALSE,
          v |-> IF servings > 0 THEN RoundDiv(totalCost.v, servings)
                ELSE (-(2 * totalCost.v + servings)) \div (-(2 * servings))]

\* the result of calculateRecipeCost
RecipeCostResult(ingredientPrices, servings) ==
    LET totalCost == SumCosts(ingredientPrices, Len(ingredientPrices))
    IN  [totalCost |-> totalCost,
         costPerServing |-> CostPerServing(totalCost, servings),
         servings |-> servings,
         ingredientBreakdown |-> ingredientPrices]

(***************************************************************************)
(* DatabaseService: storeRecipeCalculation.  The tables hold the rows of   *)
(* the connection, those of an open transaction included; transaction      *)
(* holds the tables as they were at BEGIN while a transaction is open.     *)
(* Field by of a row names the invocation that wrote it.                   *)
(***************************************************************************)
\* the calculationData calculateRecipeCost hands to storeRecipeCalculation
CalculationData(result, ingredientPrices) ==
    [totalCost |-> result.totalCost,
     costPerServing |-> result.costPerServing,
     ingredients |-> [i \in 1..Len(ingredientPrices) |->
        [parsedData |-> ingredientPrices[i].parsedData,
         cost |-> ingredientPrices[i].recipePortionCost,
         pricePerUnit |-> ingredientPrices[i].pricePerUnit,
         priceUnit |-> ingredientPrices[i].unit]]]

\* the rows that are committed
Persisted(db) ==
    IF db.transaction = <<>> THEN db.tables ELSE db.transaction[1]

\* the id of the next row of an AUTOINCREMENT table
NextId(rows) ==
    IF rows = {} THEN 1
    ELSE (CHOOSE r \in rows : \A q \in rows : q.id <= r.id).id + 1

\* what runQuery resolves to after an INSERT: { id: this.lastID, changes }
RunQueryResult(id) == [id |-> <<id>>, changes |-> 1]

\* result.lastID, which is undefined (<<>>) on an object without that key
LastID(result) ==
    IF "lastID" \in DOMAIN result THEN result.lastID ELSE <<>>

\* BEGIN TRANSACTION is refused while a transaction is open
BeginWithinTransaction(db) ==
    [ok |-> TRUE,
     transaction |-> IF db.transaction = <<>> THEN <<db.tables>>
                     ELSE db.transaction]

BeginTransaction(db) ==
    [ok |-> db.transaction = <<>>,
     transaction |-> IF db.transaction = <<>> THEN <<db.tables>>
                     ELSE db.transaction]

\* a new invocation of storeRecipeCalculation, before its BEGIN has run
Invocation(calculationData) ==
    [data |-> calculationData, pc |-> "begin", i |-> 1,
     calculationId |-> <<>>, parsedIngredientId |-> <<>>, error |-> ""]

\* the pc after the loop body or before its first pass
LoopOrCommit(s, i) ==
    IF i <= Len(s.data.ingredients) THEN "parsed" ELSE "commit"

\* one awaited statement of invocation s, numbered by, on the database db:
\* the database and the invocation after it.  NaN and undefined are bound
\* as NULL, which a NOT NULL column refuses; the failure of a statement in
\* the try block leads to ROLLBACK, and the error is thrown after it
StoreStep(db, s, by) ==
    LET fail(message) == [db |-> db,
                          s |-> [s EXCEPT !.pc = "rollback", !.error = message]]
        d == s.data
    IN  CASE s.pc = "begin" ->
               LET begun == BeginTransaction(db)
               IN  IF begun.ok
                   THEN [db |-> [db EXCEPT !.transaction = begun.transaction],
                         s  |-> [s EXCEPT !.pc = "calculation"]]
                   ELSE [db |-> db,
                         s  |-> [s EXCEPT !.pc = "thrown",
                                          !.error = "within a transaction"]]
          [] s.pc = "calculation" ->
               IF d.totalCost.nan \/ d.costPerServing.nan
               THEN fail("NOT NULL")
               ELSE LET id == NextId(db.tables.calculations)
                    IN  [db |-> [db EXCEPT !.tables.calculations =
                                    @ \cup {[id |-> id, by |-> by]}],
                         s  |-> [s EXCEPT
                                   !.calculationId = LastID(RunQueryResult(id)),
                                   !.pc = LoopOrCommit(s, 1)]]
          [] s.pc = "parsed" ->
               LET parsedData == d.ingredients[s.i].parsedData
                   id == NextId(db.tables.parsed)
               IN  IF parsedData.quantity.nan \/ parsedData.normalizedQuantity.nan
                   THEN fail("NOT NULL")
                   ELSE [db |-> [db EXCEPT !.tables.parsed =
                                    @ \cup {[id |-> id, by |-> by]}],
                         s  |-> [s EXCEPT
                                   !.parsedIngredientId =
                                       LastID(RunQueryResult(id)),
                                   !.pc = "ingredient"]]
          [] s.pc = "ingredient" ->
               LET ingredient == d.ingredients[s.i]
                   id == NextId(db.tables.ingredients)
               IN  IF \/ s.calculationId = <<>>
                      \/ s.parsedIngredientId = <<>>
                      \/ ingredient.cost.nan
                      \/ ingredient.pricePerUnit.nan
                      \/ ingredient.priceUnit = undefined
                   THEN fail("NOT NULL")
                   ELSE [db |-> [db EXCEPT !.tables.ingredients =
                                    @ \cup {[id |-> id, by |-> by,
                                        calculation_id |-> s.calculationId[1],
                                        parsed_ingredient_id |->
                                            s.parsedIngredientId[1]]}],
                         s  |-> [s EXCEPT !.i = s.i + 1,
                                          !.pc = LoopOrCommit(s, s.i + 1)]]
          [] s.pc = "commit" ->
               IF db.transaction = <<>> THEN fail("no transaction")
               ELSE [db |-> [db EXCEPT !.transaction = <<>>],
                     s  |-> [s EXCEPT !.pc = "done"]]
          [] s.pc = "rollback" ->
               IF db.transaction = <<>>
               THEN [db |-> db,
                     s  |-> [s EXCEPT !.pc = "thrown",
                                      !.error = "no transaction"]]
               ELSE [db |-> [tables |-> db.transaction[1],
                             transaction |-> <<>>],
                     s  |-> [s EXCEPT !.pc = "thrown"]]

\* storeRecipeCalculation run to its end with no other statement between
\* its own: the database after it
RECURSIVE StoreAlone(_, _, _)
StoreAlone(db, s, by) ==
    IF s.pc \in {"done", "thrown"} THEN db
    ELSE LET next == StoreStep(db, s, by)
         IN  StoreAlone(next.db, next.s, by)

\* the results of the calls in the order in which they returned
InOrderOfReturn(calls) ==
    [n \in 1..Len(calls) |->
        calls[CHOOSE c \in 1..Len(calls) : calls[c].rank = n].quote[1]]

\* await Promise.all(pricePromises): the results in the order of the
\* promises, which is the order of the lines they were mapped from
PromiseAll(calls) ==
    [c \in 1..Len(calls) |-> calls[c].quote[1]]

\* Promise.all settles and calculateRecipeCost returns, or throws the error
\* of a getIngredientPrice call that raised.  Before it returns it awaits
\* db.storeRecipeCalculation and swallows its error; on a connection that
\* was never opened every statement fails
ReturnRecipeCost ==
    /\ recipe # <<>>
    /\ recipe[1].pc = "pricing"
    /\ \/ /\ \E c \in 1..Len(lookup) : lookup[c].pc = "raised"
          /\ recipe' = <<[recipe[1] EXCEPT !.pc = "raised"]>>
          /\ UNCHANGED <<tables, transaction>>
       \/ /\ \A c \in 1..Len(lookup) : lookup[c].pc = "done"
          /\ LET ingredientPrices == PromiseAll(lookup)
                 result == RecipeCostResult(ingredientPrices, recipe[1].servings)
                 stored == StoreAlone(
                              [tables |-> tables, transaction |-> transaction],
                              Invocation(CalculationData(result, ingredientPrices)),
                              1)
             IN  /\ recipe' = <<[recipe[1] EXCEPT !.pc = "returned",
                                                  !.result = <<result>>]>>
                 /\ tables' = IF dbOpen THEN stored.tables ELSE tables
                 /\ transaction' = IF dbOpen THEN stored.transaction
                                   ELSE transaction
    /\ UNCHANGED <<activeSources, snapshots, clock, lookup, answer>>
    /\ UNCHANGED <<storing, sourcesCall, dateNow, lastApiCall,
                   translating>>
    /\ UNCHANGED <<parserVars, providerVars>>

\* time passes by the maximal age of a cached price; the clock counts from
\* the first price stored
Tick ==
    /\ snapshots # {}
    /\ clock < MaxAges * maxAgeHours * SecondsPerHour
    /\ clock' = clock + maxAgeHours * SecondsPerHour
    /\ UNCHANGED <<activeSources, snapshots, recipe, lookup, answer>>
    /\ UNCHANGED <<parserVars, providerVars, serviceVars>>

PricesNext ==
    \/ \E ingredients \in IngredientLists, servings \in {<<>>, <<3>>} :
          CalculateRecipeCost(ingredients, servings)
    \/ \E ingredients \in IngredientLists, servings \in {<<>>, <<3>>} :
          PostPricesRecipe(ingredients, servings)
    \/ \E c \in 1..MaxLines, normalized \in UNION {resolutionsOf[i] : i \in Lines} :
          Resolve(c, normalized)
    \/ \E c \in 1..MaxLines, fails \in BOOLEAN : ScrapeRead(c, fails)
    \/ \E c \in 1..MaxLines, variation \in Variations,
          outcome \in {"ok", "fetchThrows", "storeThrows", "logThrows"} :
          ScrapeFetch(c, variation, outcome)
    \/ \E c \in 1..MaxLines, fails \in BOOLEAN : ScrapeLogFailure(c, fails)
    \/ \E c \in 1..MaxLines : ReturnQuote(c)
    \/ ReturnRecipeCost

SpecPrices == PricesInit /\ [][PricesNext]_vars

(***************************************************************************)
(* Single quotes: getIngredientPrice calls on one provider, one after the  *)
(* other                                                                   *)
(***************************************************************************)
\* the ingredients single quotes are asked for
QuotedIngredients == {"1 tsp salt", "2 dragonfruit", "constructor"}

\* a lookup that has returned its quote or has thrown
Settled(c) == lookup[c].pc \in {"done", "raised", "over"}

\* what is left of a call that is over: the provider keeps nothing of it
\* but the rows it wrote
Over ==
    [ingredient |-> "", pc |-> "over", normalized |-> <<>>, k |-> 1,
     results |-> <<>>, quote |-> <<>>, rank |-> 0]

\* a caller calls provider.getIngredientPrice(ingredient) once the calls
\* before it have settled
GetIngredientPriceQuote(ingredient) ==
    /\ recipe = <<>>
    /\ Len(lookup) < MaxQuotes
    /\ \A c \in 1..Len(lookup) : Settled(c)
    /\ lookup' = Append([c \in 1..Len(lookup) |-> Over],
                     [ingredient |-> ingredient, pc |-> "resolve",
                      normalized |-> <<>>, k |-> 1, results |-> <<>>,
                      quote |-> <<>>, rank |-> 0])
    /\ UNCHANGED <<activeSources, snapshots, clock, recipe, answer>>
    /\ UNCHANGED <<parserVars, providerVars, serviceVars>>

QuotesNext ==
    \/ \E ingredient \in QuotedIngredients : GetIngredientPriceQuote(ingredient)
    \/ \E c \in 1..MaxQuotes, normalized \in UNION {resolutionsOf[i] : i \in Lines} :
          Resolve(c, normalized)
    \/ \E c \in 1..MaxQuotes, fails \in BOOLEAN : ScrapeRead(c, fails)
    \/ \E c \in 1..MaxQuotes, variation \in Variations,
          outcome \in {"ok", "fetchThrows", "storeThrows", "logThrows"} :
          ScrapeFetch(c, variation, outcome)
    \/ \E c \in 1..MaxQuotes, fails \in BOOLEAN : ScrapeLogFailure(c, fails)
    \/ \E c \in 1..MaxQuotes : ReturnQuote(c)
    \/ Tick

SpecQuotes == PricesInit /\ [][QuotesNext]_vars

(***************************************************************************)
(* Properties of the quotes                                                *)
(***************************************************************************)
\* the rows of a source for a search term that are younger than the maximal
\* age, by the ingredient or by the normalized ingredient
FreshObservations(source, term) ==
    {r \in snapshots :
        /\ r.store_name = source
        /\ term \in {r.ingredient, r.normalized_ingredient}
        /\ clock - r.scraped_at < maxAgeHours * SecondsPerHour}

\* lookup c has got the answer of a source in this step
Answered(c) ==
    /\ c \in 1..Len(lookup)
    /\ c \in 1..Len(lookup')
    /\ lookup[c].pc \in {"read", "fetch"}
    /\ Len(lookup'[c].results) = Len(lookup[c].results) + 1

\* C12: for each source, a fresh cached observation is returned marked
\* cached without a fetch and without a write; without one the price is
\* fetched, and a fetch that succeeds has written its observation to the
\* cache when the source's answer is in
C12_CachedElseFetchedAndStored ==
    [][\A c \in 1..Len(lookup) :
          LET l      == lookup[c]
              source == activeSources[l.k]
              term   == l.normalized[1].searchTerm
              fresh  == FreshObservations(source, term)
          IN  /\ (l.pc = "read" /\ fresh # {} /\ lookup'[c] # l
                    /\ lookup'[c].pc # "logFailure")
                 => /\ Answered(c)
                    /\ snapshots' = snapshots
                    /\ LET r == lookup'[c].results[Len(l.results) + 1]
                       IN  /\ r.cached
                           /\ r.source = source
                           /\ \E row \in fresh : /\ row.price = r.price
                                                 /\ row.unit = r.unit
              /\ (l.pc = "read" /\ fresh = {} /\ lookup'[c] # l)
                 => lookup'[c].pc \in {"fetch", "logFailure"}
              /\ (l.pc = "fetch" /\ Answered(c))
                 => LET r == lookup'[c].results[Len(l.results) + 1]
                    IN  /\ ~r.cached
                        /\ r.source = source
                        /\ \E row \in snapshots' \ snapshots :
                              /\ row.store_name = source
                              /\ row.ingredient = term
                              /\ row.price = r.price
                              /\ row.unit = r.unit
                              /\ row.scraped_at = clock
       ]_vars

\* a quote from one source's cached price and another source's fetched price
C12_Witness ==
    \E c \in 1..Len(lookup) :
       /\ lookup[c].pc = "done"
       /\ \E i, j \in 1..Len(lookup[c].results) :
             /\ lookup[c].results[i].cached
             /\ ~lookup[c].results[j].cached

\* the quotes that are out: the lookups that returned one
Quoted == {c \in 1..Len(lookup) : lookup[c].pc = "done"}

\* the sum of the prices, in cents, of the results with an index in S
RECURSIVE PriceTotal(_, _)
PriceTotal(results, S) ==
    IF S = {} THEN 0
    ELSE LET i == CHOOSE j \in S : TRUE
         IN  results[i].price.v + PriceTotal(results, S \ {i})

\* C15: a quote with at least one source's price has as pricePerUnit the
\* arithmetic mean, to the cent, of the prices of the contributing sources
\* that share the quoted unit, and as sourceCount the number of contributing
\* sources
C15_MeanOfContributingSources ==
    \A c \in Quoted :
       LET results == lookup[c].results
           quote   == lookup[c].quote[1]
           sharing == {i \in 1..Len(results) : results[i].unit = quote.unit}
       IN  Len(results) >= 1 =>
              /\ quote.dataSource = "store_scraping"
              /\ quote.sourceCount = Len(results)
              /\ quote.sources = [i \in 1..Len(results) |-> results[i].source]
              /\ sharing # {}
              /\ IF \E i \in sharing : results[i].price.nan
                 THEN quote.pricePerUnit.nan
                 ELSE /\ ~quote.pricePerUnit.nan
                      /\ LET n     == Cardinality(sharing)
                             total == PriceTotal(results, sharing)
                             twice == 2 * (n * quote.pricePerUnit.v - total)
                         IN  twice <= n /\ -twice <= n

\* a quote from two sources with different prices
C15_Witness ==
    \E c \in Quoted :
       /\ Len(lookup[c].results) = 2
       /\ ~lookup[c].results[1].price.nan
       /\ ~lookup[c].results[2].price.nan
       /\ lookup[c].results[1].price # lookup[c].results[2].price
       /\ lookup[c].quote[1].sourceCount = 2

\* C14: a failure in one source's lookup, the write of the scrape log for
\* the failed attempt included, never makes getIngredientPrice raise
C14_SourceFailureNeverRaises ==
    \A c \in 1..Len(lookup) : lookup[c].pc # "raised"

\* a failure whose scrape log is written counts as no data for that source
\* only: the first source failed, the second was still asked and is the only
\* one of the quote
C14_LoggedFailureAbsorbed ==
    \E c \in 1..Len(lookup) :
       /\ lookup[c].pc = "done"
       /\ Len(activeSources) = 2
       /\ lookup[c].quote[1].sources = <<activeSources[2]>>

\* C16: the confidence of a quote follows the number of sources that
\* contributed, whatever tier resolved the search term: high for two or
\* more, medium for exactly one
C16_ConfidenceBySourceCount ==
    \A c \in Quoted :
       LET quote == lookup[c].quote[1]
       IN  /\ Len(lookup[c].results) >= 2 => quote.confidence = "high"
           /\ Len(lookup[c].results) = 1 => quote.confidence = "medium"

\* what the code does instead: the confidence of a quote from the stores is
\* the confidence of the translation
C16_ConfidenceOfTheTranslation ==
    \A c \in Quoted :
       Len(lookup[c].results) >= 1 =>
          lookup[c].quote[1].confidence = lookup[c].normalized[1].confidence

\* the price the static table has for a resolved name, or the default
StaticPrice(english) ==
    IF \E i \in 1..Len(fallbackPrices) : fallbackPrices[i][1] = english
    THEN LET e == fallbackPrices[CHOOSE i \in 1..Len(fallbackPrices) :
                                   fallbackPrices[i][1] = english]
         IN  [price |-> Num(e[2]), unit |-> e[3]]
    ELSE [price |-> Num(250), unit |-> "kg"]

\* C17: with no source's price the quote is still returned, priced from the
\* static table by the resolved name or at 2.50 EUR per kg, with sourceCount
\* 0, sources ["fallback"] and confidence low in every case
C17_FallbackQuoteIsLow ==
    \A c \in Quoted :
       LET quote == lookup[c].quote[1]
           static == StaticPrice(lookup[c].normalized[1].english)
       IN  Len(lookup[c].results) = 0 =>
              /\ quote.sourceCount = 0
              /\ quote.sources = <<"fallback">>
              /\ quote.pricePerUnit = static.price
              /\ quote.unit = static.unit
              /\ quote.confidence = "low"

\* the part of C17 that holds for every name that is no inherited key of
\* the table: the price, the unit, sourceCount and sources
C17_FallbackPriceAndSources ==
    \A c \in Quoted :
       LET quote == lookup[c].quote[1]
           english == lookup[c].normalized[1].english
           static == StaticPrice(english)
       IN  (Len(lookup[c].results) = 0 /\ english \notin ObjectPrototypeKeys) =>
              /\ quote.sourceCount = 0
              /\ quote.sources = <<"fallback">>
              /\ quote.pricePerUnit = static.price
              /\ quote.unit = static.unit
              /\ quote.confidence =
                    IF quote.translationFound THEN "medium" ELSE "low"

(***************************************************************************)
(* Properties of the recipe cost                                           *)
(***************************************************************************)
\* the calculateRecipeCost calls that returned a result
Returned == {i \in 1..Len(recipe) : recipe[i].pc = "returned"}

\* the sum, in cents, of the recipePortionCost of the first n quotes
RECURSIVE BreakdownTotal(_, _)
BreakdownTotal(ingredientBreakdown, n) ==
    IF n = 0 THEN 0
    ELSE ingredientBreakdown[n].recipePortionCost.v
           + BreakdownTotal(ingredientBreakdown, n - 1)

\* a result whose totalCost is the sum of its breakdown and whose
\* costPerServing is totalCost / servings, each within a cent
AddsUp(result) ==
    /\ ~result.totalCost.nan
    /\ ~result.costPerServing.nan
    /\ ~result.costPerServing.infinite
    /\ result.servings >= 1
    /\ \A n \in 1..Len(result.ingredientBreakdown) :
          ~result.ingredientBreakdown[n].recipePortionCost.nan
    /\ LET sum  == BreakdownTotal(result.ingredientBreakdown,
                                  Len(result.ingredientBreakdown))
           off  == result.totalCost.v - sum
           rest == result.costPerServing.v * result.servings
                      - result.totalCost.v
       IN  /\ off <= 1 /\ -off <= 1
           /\ rest <= result.servings /\ -rest <= result.servings

C18_TotalsAddUpOfNumbers ==
    \A i \in Returned :
       LET result == recipe[i].result[1]
       IN  (/\ result.servings >= 1
            /\ \A n \in 1..Len(result.ingredientBreakdown) :
                  ~result.ingredientBreakdown[n].recipePortionCost.nan)
           => AddsUp(result)

\* the cost of line c before any rounding: quantity times price as the
\* fraction num / den, in 1e-6 cents
ExactCost(c) ==
    LET l == lookup[c]
        static == FallbackPriceOf(l.normalized[1].english)
        fallbackPrice == IF static # <<>> THEN static[1]
                         ELSE [price |-> Num(250), unit |-> "kg"]
    IN  IF Len(l.results) > 0
        THEN _calculateActualCost(parsedOf[l.ingredient],
                                  SumPrices(l.results, Len(l.results)),
                                  Len(l.results), l.results[1].unit)
        ELSE _calculateActualCost(parsedOf[l.ingredient], fallbackPrice.price,
                                  1, fallbackPrice.unit)

\* the sum of the exact costs of the first n lines, as a fraction
RECURSIVE ExactTotal(_)
ExactTotal(n) ==
    IF n = 0 THEN [num |-> 0, den |-> 1]
    ELSE LET rest == ExactTotal(n - 1)
             cost == ExactCost(n)
         IN  [num |-> rest.num * cost.den + cost.num * rest.den,
              den |-> rest.den * cost.den]

\* C19: money is rounded only when presented: totalCost is the exact sum of
\* quantity times price over the lines, rounded to the cent, and not the sum
\* of the lines' rounded costs
C19_TotalIsRoundedExactSum ==
    \A i \in Returned :
       LET result == recipe[i].result[1]
           exact  == ExactTotal(Len(lookup))
       IN  (\A c \in 1..Len(lookup) : ~ExactCost(c).nan)
           => result.totalCost = Num(RoundDiv(exact.num, exact.den * 1000000))

\* what the code does instead: totalCost is the sum of the lines' costs, each
\* rounded to the cent
C19_TotalIsSumOfRoundedCosts ==
    \A i \in Returned :
       LET result == recipe[i].result[1]
       IN  (\A c \in 1..Len(lookup) : ~ExactCost(c).nan)
           => result.totalCost =
                 Num(BreakdownTotal([c \in 1..Len(lookup) |->
                        [recipePortionCost |-> RoundCost(ExactCost(c))]],
                        Len(lookup)))

\* an ingredient list that is missing, no array, or empty
NoIngredients(ingredients) ==
    ingredients.kind # "array" \/ Len(ingredients.lines) = 0

\* C20: a recipe cost calculation asked for with an empty, missing or
\* non-array ingredient list reports a failure and never returns a result
C20_NoIngredientsIsReported ==
    \A i \in 1..Len(recipe) :
       NoIngredients(recipe[i].ingredients) => recipe[i].pc # "returned"

\* the part of C20 that holds: a missing or non-array list makes the call
\* throw, and the route rejects every list without ingredients
C20_MissingOrNotArrayIsReported ==
    \A i \in 1..Len(recipe) :
       /\ recipe[i].ingredients.kind # "array"
             => recipe[i].pc \in {"raised", "rejected"}
       /\ recipe[i].pc = "rejected" => NoIngredients(recipe[i].ingredients)

(***************************************************************************)
(* Recipes asked for with any servings                                     *)
(***************************************************************************)
\* the lines of the recipes whose servings and whose order are looked at
OrderedLines == {"1 tsp salt", "2 dragonfruit"}

\* the arrays of up to MaxLines of them
OrderedLists ==
    {[kind |-> "array", lines |-> l] :
        l \in UNION {[1..n -> OrderedLines] : n \in 0..MaxLines}}

ServingsNext ==
    \/ \E ingredients \in OrderedLists, servings \in ServingsArguments :
          CalculateRecipeCost(ingredients, servings)
    \/ \E ingredients \in OrderedLists, servings \in ServingsArguments :
          PostPricesRecipe(ingredients, servings)
    \/ \E c \in 1..MaxLines, normalized \in UNION {resolutionsOf[i] : i \in Lines} :
          Resolve(c, normalized)
    \/ \E c \in 1..MaxLines, fails \in BOOLEAN : ScrapeRead(c, fails)
    \/ \E c \in 1..MaxLines, variation \in Variations,
          outcome \in {"ok", "fetchThrows", "storeThrows", "logThrows"} :
          ScrapeFetch(c, variation, outcome)
    \/ \E c \in 1..MaxLines, fails \in BOOLEAN : ScrapeLogFailure(c, fails)
    \/ \E c \in 1..MaxLines : ReturnQuote(c)
    \/ ReturnRecipeCost

SpecServings == PricesInit /\ [][ServingsNext]_vars

\* C21: a recipe cost calculation asked for with servings of 0 or less is
\* reported as a failure and never returns a cost result
C21_NonPositiveServingsIsReported ==
    \A i \in 1..Len(recipe) :
       (recipe[i].asked # <<>> /\ recipe[i].asked[1] <= 0)
          => recipe[i].pc # "returned"

\* C22: the servings costPerServing is computed with are at least 1, 4 when
\* the caller left them out or gave 0 or less, and costPerServing is never
\* negative, infinite or no number while the total is a number
C22_ServingsAtLeastOne ==
    \A i \in Returned :
       LET result == recipe[i].result[1]
           asked  == recipe[i].asked
       IN  /\ result.servings >= 1
           /\ (asked = <<>> \/ asked[1] <= 0) => result.servings = 4
           /\ ~result.costPerServing.infinite
           /\ ~result.totalCost.nan =>
                 /\ ~result.costPerServing.nan
                 /\ result.costPerServing.v >= 0

(***************************************************************************)
(* Recipes whose lookups all answer: the order of the breakdown            *)
(***************************************************************************)
OrderNext ==
    \/ \E ingredients \in OrderedLists :
          CalculateRecipeCost(ingredients, <<>>)
    \/ \E c \in 1..MaxLines, normalized \in UNION {resolutionsOf[i] : i \in Lines} :
          Resolve(c, normalized)
    \/ \E c \in 1..MaxLines : ScrapeRead(c, FALSE)
    \/ \E c \in 1..MaxLines, variation \in Variations :
          ScrapeFetch(c, variation, "ok")
    \/ \E c \in 1..MaxLines : ReturnQuote(c)
    \/ ReturnRecipeCost

SpecOrder == PricesInit /\ [][OrderNext]_vars

\* C23: the ingredientBreakdown of a result has one entry per input line,
\* and entry i is the quote of input line i, in whatever order the lookups
\* returned
C23_BreakdownInInputOrder ==
    \A i \in Returned :
       LET breakdown == recipe[i].result[1].ingredientBreakdown
           lines     == recipe[i].ingredients.lines
       IN  /\ Len(breakdown) = Len(lines)
           /\ \A n \in 1..Len(lines) : breakdown[n].ingredient = lines[n]

\* a result of two different lines whose second lookup returned first
C23_Witness ==
    /\ Returned # {}
    /\ Len(lookup) >= 2
    /\ lookup[1].ingredient # lookup[2].ingredient
    /\ lookup[2].rank < lookup[1].rank

\* C30: within one staleness window of maxAgeHours at most one price is
\* fetched and written per source and search term: no two rows of one
\* source and term are less than maxAgeHours apart
C30_OneFetchPerWindow ==
    \A r \in snapshots, q \in snapshots :
       (/\ r.id # q.id
        /\ r.store_name = q.store_name
        /\ r.ingredient = q.ingredient
        /\ r.scraped_at <= q.scraped_at)
          => q.scraped_at >= r.scraped_at + maxAgeHours * SecondsPerHour

(***************************************************************************)
(* The cost of a line against the amount needed                            *)
(***************************************************************************)
CostNext ==
    \/ \E ingredient \in CostedLines : GetIngredientPriceQuote(ingredient)
    \/ \E c \in 1..MaxQuotes,
          normalized \in UNION {resolutionsOf[i] : i \in CostedLines} :
          Resolve(c, normalized)
    \/ \E c \in 1..MaxQuotes, fails \in BOOLEAN : ScrapeRead(c, fails)
    \/ \E c \in 1..MaxQuotes, variation \in Variations,
          outcome \in {"ok", "fetchThrows", "storeThrows", "logThrows"} :
          ScrapeFetch(c, variation, outcome)
    \/ \E c \in 1..MaxQuotes, fails \in BOOLEAN : ScrapeLogFailure(c, fails)
    \/ \E c \in 1..MaxQuotes : ReturnQuote(c)

SpecCost == PricesInit /\ [][CostNext]_vars

RECURSIVE GCD(_, _)
GCD(a, b) == IF b = 0 THEN a ELSE GCD(b, a % b)

\* the fraction f in lowest terms
Reduced(f) == <<f[1] \div GCD(f[1], f[2]), f[2] \div GCD(f[1], f[2])>>

\* a quoted unit as a number of units: "500g" is 500 "g", "kg" is 1 "kg"
QuotedPack(priceUnit) ==
    LET e == SkipDigits(priceUnit, 1)
    IN  [n    |-> IF e = 1 THEN 1 ELSE DigitsValue(SubSeq(priceUnit, 1, e - 1)),
         unit |-> From(priceUnit, e)]

\* the amount needed in quoted units as a fraction of normalizedQuantity:
\* the unit factors within a family, and 1:1 between kg and liter; <<>>
\* where the two are of other families
QuotedFactor(normalizedUnit, priceUnit) ==
    LET pack   == QuotedPack(priceUnit)
        family == _getUnitType(pack.unit)
        base   == IF family = "volume" THEN "liter" ELSE "kg"
        factor == getConversionFactor(base, pack.unit)
    IN  IF family \in {"weight", "volume"}
             /\ _getUnitType(normalizedUnit) \in {"weight", "volume"}
             /\ factor # <<>>
        THEN <<Reduced(<<factor[1][1], factor[1][2] * pack.n>>)>>
        ELSE <<>>

\* the cost of the amount needed, in 1e-6 cents: normalizedQuantity in
\* quoted units times the price, and for a line counted in pieces and a
\* price per pieces the number of pieces times the price; <<>> otherwise
CostOfAmountNeeded(parsedIngredient, priceSum, priceCount, priceUnit) ==
    LET f    == QuotedFactor(parsedIngredient.normalizedUnit, priceUnit)
        pack == QuotedPack(priceUnit)
    IN  IF parsedIngredient.normalizedQuantity.nan \/ priceSum.nan THEN <<>>
        ELSE IF f # <<>>
        THEN <<[nan |-> FALSE,
                num |-> parsedIngredient.normalizedQuantity.v * f[1][1]
                           * priceSum.v,
                den |-> f[1][2] * priceCount]>>
        ELSE IF _getUnitType(pack.unit) = "count"
                  /\ parsedIngredient.unitType = "count"
        THEN <<[nan |-> FALSE,
                num |-> parsedIngredient.quantity.v * 100000 * priceSum.v,
                den |-> pack.n * priceCount]>>
        ELSE <<>>

\* C24: the cost of a line is its quantity converted into the unit the
\* price is quoted in, times the price: the unit factors within a family,
\* pack units such as "500g", "10pcs" and "piece" included, and 1:1 only
\* between mass and volume
C24_CostOfTheAmountNeeded ==
    \A c \in Quoted :
       LET l      == lookup[c]
           quote  == l.quote[1]
           needed == IF Len(l.results) > 0
                     THEN CostOfAmountNeeded(quote.parsedData,
                              SumPrices(l.results, Len(l.results)),
                              Len(l.results), quote.unit)
                     ELSE CostOfAmountNeeded(quote.parsedData,
                              quote.pricePerUnit, 1, quote.unit)
       IN  needed # <<>> => quote.recipePortionCost = RoundCost(needed[1])

\* C24 for the prices quoted per kg or per liter
C24_HoldsPerKgAndLiter ==
    \A c \in Quoted :
       lookup[c].quote[1].unit \in {"kg", "liter"}
          => LET l      == lookup[c]
                 quote  == l.quote[1]
                 needed == IF Len(l.results) > 0
                           THEN CostOfAmountNeeded(quote.parsedData,
                                    SumPrices(l.results, Len(l.results)),
                                    Len(l.results), quote.unit)
                           ELSE CostOfAmountNeeded(quote.parsedData,
                                    quote.pricePerUnit, 1, quote.unit)
             IN  /\ needed # <<>>
                 /\ quote.recipePortionCost = RoundCost(needed[1])

(***************************************************************************)
(* Stored calculations                                                     *)
(***************************************************************************)
\* the rows of the committed tables that invocation by wrote
RowsOf(db, by) ==
    [calculations |-> {r \in Persisted(db).calculations : r.by = by},
     parsed       |-> {r \in Persisted(db).parsed : r.by = by},
     ingredients  |-> {r \in Persisted(db).ingredients : r.by = by}]

\* rows are the rows of one calculation of n lines: the calculation, n
\* parsed ingredients and n recipe ingredients that name it
IsWholeCalculation(rows, n) ==
    /\ Cardinality(rows.calculations) = 1
    /\ Cardinality(rows.parsed) = n
    /\ Cardinality(rows.ingredients) = n
    /\ \A r \in rows.ingredients :
          /\ \E k \in rows.calculations : r.calculation_id = k.id
          /\ \E q \in rows.parsed : r.parsed_ingredient_id = q.id

\* most invocations of storeRecipeCalculation on the connection
MaxStores == 2

\* the lines of the calculations that are stored
StoredLines == {"2 dragonfruit", "constructor"}

\* the quotes of these lines
StoredQuotes ==
    UNION {{FallbackQuote(i, n, parsedOf[i]) : n \in resolutionsOf[i]} :
             i \in StoredLines}

\* the calculationData of the recipes of up to MaxLines of these lines
StoredData ==
    {CalculationData(RecipeCostResult(q, 4), q) :
        q \in UNION {[1..n -> StoredQuotes] : n \in 0..MaxLines}}

\* a caller calls db.storeRecipeCalculation(calculationData): the
\* invocation runs up to its first await
StoreRecipeCalculation(calculationData) ==
    /\ Len(storing) < MaxStores
    /\ storing' = Append(storing, Invocation(calculationData))
    /\ UNCHANGED <<tables, transaction, sourcesCall, dateNow,
                   lastApiCall, translating>>
    /\ UNCHANGED <<parserVars, providerVars, priceVars>>

\* the statement invocation c waits for runs, and c goes on to its next
\* await, returns or throws
RunStatement(c, pcs) ==
    /\ c \in 1..Len(storing)
    /\ storing[c].pc \in pcs
    /\ LET next == StoreStep([tables |-> tables, transaction |-> transaction],
                             storing[c], c)
       IN  /\ tables' = next.db.tables
           /\ transaction' = next.db.transaction
           /\ storing' = [storing EXCEPT ![c] = next.s]
    /\ UNCHANGED <<sourcesCall, dateNow, lastApiCall, translating>>
    /\ UNCHANGED <<parserVars, providerVars, priceVars>>

\* runQuery('BEGIN TRANSACTION')
Begin(c) == RunStatement(c, {"begin"})

\* the INSERT into recipe_calculations, parsed_ingredients or
\* recipe_ingredients
Insert(c) == RunStatement(c, {"calculation", "parsed", "ingredient"})

\* runQuery('COMMIT')
Commit(c) == RunStatement(c, {"commit"})

\* runQuery('ROLLBACK') in the catch block
Rollback(c) == RunStatement(c, {"rollback"})

StoreNext ==
    \/ \E calculationData \in StoredData :
          StoreRecipeCalculation(calculationData)
    \/ \E c \in 1..MaxStores : Begin(c)
    \/ \E c \in 1..MaxStores : Insert(c)
    \/ \E c \in 1..MaxStores : Commit(c)
    \/ \E c \in 1..MaxStores : Rollback(c)

SpecStore == PricesInit /\ [][StoreNext]_vars

\* no row at all
IsNoRow(rows) ==
    rows.calculations = {} /\ rows.parsed = {} /\ rows.ingredients = {}

\* C26: storeRecipeCalculation is all-or-nothing under any interleaving of
\* its invocations on one connection: the persisted rows of an invocation
\* are its calculation with all its ingredient rows or none, and those of
\* an invocation that returned are all there, whatever the others did
C26_AllOrNothing ==
    \A c \in 1..Len(storing) :
       LET rows == RowsOf([tables |-> tables, transaction |-> transaction], c)
           n    == Len(storing[c].data.ingredients)
       IN  /\ IsWholeCalculation(rows, n) \/ IsNoRow(rows)
           /\ storing[c].pc = "done" => IsWholeCalculation(rows, n)

\* an invocation has returned with its rows persisted, and another, whose
\* BEGIN ran within the transaction of the first, has thrown
C26_Witness ==
    \E c \in 1..Len(storing), d \in 1..Len(storing) :
       /\ storing[c].pc = "done"
       /\ IsWholeCalculation(
             RowsOf([tables |-> tables, transaction |-> transaction], c),
             Len(storing[c].data.ingredients))
       /\ storing[d].pc = "thrown"
       /\ storing[d].error = "within a transaction"
       /\ Len(storing[d].data.ingredients) > 0

\* C25: after calculateRecipeCost has returned for n lines on an open
\* database, one recipe_calculations row, n parsed_ingredients rows and n
\* recipe_ingredients rows linked to that calculation are persisted
C25_CalculationIsRecorded ==
    \A i \in Returned :
       dbOpen =>
          IsWholeCalculation(
             RowsOf([tables |-> tables, transaction |-> transaction], i),
             Len(recipe[i].ingredients.lines))

(***************************************************************************)
(* The active sources: setActiveSources and POST /api/prices/sources       *)
(***************************************************************************)
\* most names in the sources argument of a call
MaxSources == 2

\* the names a caller passes: the three sources, a store that is none, and
\* a name every object inherits
SourceNames == {"selver", "rimi", "coop", "prisma", "constructor"}

\* the sources arguments: none, not an array, or an array of up to
\* MaxSources names
SourceLists ==
    {[kind |-> "missing", names |-> <<>>], [kind |-> "notArray", names |-> <<>>]}
    \cup {[kind |-> "array", names |-> l] :
             l \in UNION {[1..n -> SourceNames] : n \in 0..MaxSources}}

\* this.availableSources[source] in a condition: an own key is an object,
\* and so is what the object literal inherits from Object.prototype
IsAvailableSource(source) ==
    source \in availableSources \/ source \in ObjectPrototypeKeys

\* sources.filter(source => this.availableSources[source])
ValidSources(sources) ==
    SelectSeq(sources, LAMBDA source : IsAvailableSource(source))

\* setActiveSources(sources) for the caller via: sources.filter throws on
\* what is no array, no valid source throws, else the list is replaced
SetActiveSourcesBy(via, sources) ==
    LET validSources == ValidSources(sources.names)
        throws == sources.kind # "array" \/ Len(validSources) = 0
    IN  /\ activeSources' = IF throws THEN activeSources ELSE validSources
        /\ sourcesCall' = <<[via |-> via, sources |-> sources,
                             before |-> activeSources,
                             outcome |-> IF throws THEN "raised" ELSE "set"]>>

\* a caller in the process calls provider.setActiveSources(sources)
SetActiveSources(sources) ==
    /\ SetActiveSourcesBy("call", sources)
    /\ UNCHANGED <<snapshots, clock, recipe, lookup, answer>>
    /\ UNCHANGED <<tables, transaction, storing, dateNow,
                   lastApiCall, translating>>
    /\ UNCHANGED <<parserVars, providerVars>>

\* POST /api/prices/sources with the body { sources }: 400 for what is no
\* array or is empty and for the error of setActiveSources
PostPricesSources(sources) ==
    /\ IF sources.kind # "array" \/ Len(sources.names) = 0
       THEN /\ sourcesCall' = <<[via |-> "route", sources |-> sources,
                                 before |-> activeSources,
                                 outcome |-> "rejected"]>>
            /\ UNCHANGED activeSources
       ELSE SetActiveSourcesBy("route", sources)
    /\ UNCHANGED <<snapshots, clock, recipe, lookup, answer>>
    /\ UNCHANGED <<tables, transaction, storing, dateNow,
                   lastApiCall, translating>>
    /\ UNCHANGED <<parserVars, providerVars>>

SourcesNext ==
    \/ \E sources \in SourceLists : SetActiveSources(sources)
    \/ \E sources \in SourceLists : PostPricesSources(sources)

SpecSources == PricesInit /\ [][SourcesNext]_vars

\* the names of a sequence
Range(seq) == {seq[i] : i \in 1..Len(seq)}

\* C27: after any sequence of setActiveSources calls the active list is not
\* empty and holds only names of available sources, and a call whose
\* argument names no available source raises and leaves the list as it was
C27_ActiveSourcesAreAvailable ==
    /\ Len(activeSources) > 0
    /\ Range(activeSources) \subseteq availableSources
    /\ \A i \in 1..Len(sourcesCall) :
          LET c == sourcesCall[i]
          IN  (c.sources.kind = "array"
                 /\ Range(c.sources.names) \cap availableSources = {})
                => /\ c.outcome \in {"raised", "rejected"}
                   /\ activeSources = c.before

\* C27 for the calls whose names are none of the keys every object
\* inherits
C27_HoldsForOwnNames ==
    (\A i \in 1..Len(sourcesCall) :
        /\ Range(sourcesCall[i].sources.names) \cap ObjectPrototypeKeys = {}
        /\ Range(sourcesCall[i].before) \cap ObjectPrototypeKeys = {})
    => C27_ActiveSourcesAreAvailable

(***************************************************************************)
(* EstonianTranslationService: the rate limit of the API                   *)
(***************************************************************************)
\* this.rateLimitDelay, in milliseconds
rateLimitDelay == 1000

\* most translateIngredient calls
MaxTranslations == 3

\* most steps of Date.now(), each of half the rateLimitDelay
MaxAdvances == 3

\* the names translations are asked for
TranslatedIngredients == {"sumac", "turmeric"}

\* translateIngredient(englishIngredient) up to its first await: a cached
\* name returns at once; else _mockTranslateAPI calls _respectRateLimit,
\* which sleeps for the rest of rateLimitDelay since lastApiCall, or sets
\* lastApiCall and lets the API be invoked at once
TranslateIngredient(englishIngredient) ==
    /\ Len(translating) < MaxTranslations
    /\ LET timeSinceLastCall == dateNow - lastApiCall
           this == [ingredient |-> englishIngredient, pc |-> "done",
                    invoked |-> FALSE, at |-> 0]
       IN  IF CacheHas(translationCache, englishIngredient)
           THEN /\ translating' = Append(translating, this)
                /\ UNCHANGED lastApiCall
           ELSE IF timeSinceLastCall < rateLimitDelay
           THEN /\ translating' = Append(translating,
                      [this EXCEPT !.pc = "sleep",
                          !.at = dateNow + (rateLimitDelay - timeSinceLastCall)])
                /\ UNCHANGED lastApiCall
           ELSE /\ translating' = Append(translating,
                      [this EXCEPT !.pc = "api", !.invoked = TRUE,
                                   !.at = dateNow])
                /\ lastApiCall' = dateNow
    /\ UNCHANGED <<tables, transaction, storing, sourcesCall, dateNow>>
    /\ UNCHANGED <<parserVars, providerVars, priceVars>>

\* the timer of _respectRateLimit fires, at its time or later: lastApiCall
\* is set and the API is invoked
RespectRateLimit(c) ==
    /\ c \in 1..Len(translating)
    /\ translating[c].pc = "sleep"
    /\ dateNow >= translating[c].at
    /\ lastApiCall' = dateNow
    /\ translating' = [translating EXCEPT ![c] =
                          [@ EXCEPT !.pc = "api", !.invoked = TRUE,
                                    !.at = dateNow]]
    /\ UNCHANGED <<tables, transaction, storing, sourcesCall, dateNow>>
    /\ UNCHANGED <<parserVars, providerVars, priceVars>>

\* _mockTranslateAPI returns and translateIngredient caches the result
CacheTranslation(c) ==
    /\ c \in 1..Len(translating)
    /\ translating[c].pc = "api"
    /\ translationCache' = CacheSet(translationCache, translating[c].ingredient,
                               _mockTranslateAPI(translating[c].ingredient))
    /\ translating' = [translating EXCEPT ![c] = [@ EXCEPT !.pc = "done"]]
    /\ UNCHANGED <<initialized, dbOpen, tableExists, translations, call>>
    /\ UNCHANGED <<tables, transaction, storing, sourcesCall, dateNow,
                   lastApiCall>>
    /\ UNCHANGED <<parserVars, priceVars>>

\* Date.now() moves on by half the rateLimitDelay
Advance ==
    /\ dateNow < rateLimitDelay + MaxAdvances * (rateLimitDelay \div 2)
    /\ dateNow' = dateNow + rateLimitDelay \div 2
    /\ UNCHANGED <<tables, transaction, storing, sourcesCall,
                   lastApiCall, translating>>
    /\ UNCHANGED <<parserVars, providerVars, priceVars>>

RateNext ==
    \/ \E englishIngredient \in TranslatedIngredients :
          TranslateIngredient(englishIngredient)
    \/ \E c \in 1..MaxTranslations : RespectRateLimit(c)
    \/ \E c \in 1..MaxTranslations : CacheTranslation(c)
    \/ Advance

SpecRate == PricesInit /\ [][RateNext]_vars

\* the calls that invoked the API
Invoked == {c \in 1..Len(translating) : translating[c].invoked}

\* C29: any two invocations of the translation API through one service are
\* at least rateLimitDelay apart, concurrent translateIngredient calls
\* included
C29_InvocationsKeepTheDelay ==
    \A c \in Invoked, d \in Invoked :
       (c # d /\ translating[c].at <= translating[d].at)
          => translating[d].at - translating[c].at >= rateLimitDelay

\* C29 while no more than two calls have been made
C29_HoldsForTwoCalls ==
    Len(translating) <= 2 => C29_InvocationsKeepTheDelay

(***************************************************************************)
(* Cache runs: writes to and reads of price_snapshots as time passes       *)
(***************************************************************************)
\* most rows of price_snapshots
MaxRows == 3

\* most seconds the clock is moved on after a step by the maximal age
MaxSeconds == 1

\* the search terms the rows are written for
CachedTerms == {"sool", "kanabuljong"}

\* a scraper stores the price it fetched: db.storePriceData
StorePriceData(storeName, ingredient, variation) ==
    /\ Cardinality(snapshots) < MaxRows
    /\ snapshots' = snapshots \cup
          {storePriceData(snapshots, storeName, ingredient,
                          _getRandomPrice(ingredient, MultiplierOf(storeName),
                                          variation),
                          _getUnitForProduct(ingredient), clock)}
    /\ UNCHANGED <<activeSources, clock, recipe, lookup, answer>>
    /\ UNCHANGED <<parserVars, providerVars, serviceVars>>

\* db.getCachedPrice(storeName, ingredient, 24): the row of the answer, <<>>
\* for no row, is kept with the time of the read and the rows there were
GetCachedPrice(storeName, ingredient) ==
    /\ LET found == getCachedPrice(snapshots, storeName, ingredient,
                                   maxAgeHours, clock)
       IN  \E row \in IF found = {} THEN {<<>>} ELSE {<<r>> : r \in found} :
              answer' = <<[storeName |-> storeName, ingredient |-> ingredient,
                           at |-> clock, rows |-> Cardinality(snapshots),
                           row |-> row]>>
    /\ UNCHANGED <<activeSources, snapshots, clock, recipe, lookup>>
    /\ UNCHANGED <<parserVars, providerVars, serviceVars>>

\* a second passes
Second ==
    /\ clock % (maxAgeHours * SecondsPerHour) < MaxSeconds
    /\ clock' = clock + 1
    /\ UNCHANGED <<activeSources, snapshots, recipe, lookup, answer>>
    /\ UNCHANGED <<parserVars, providerVars, serviceVars>>

CacheNext ==
    \/ \E storeName \in {"selver", "rimi"}, ingredient \in CachedTerms,
          variation \in Variations :
          StorePriceData(storeName, ingredient, variation)
    \/ \E storeName \in {"selver", "rimi"}, ingredient \in CachedTerms :
          GetCachedPrice(storeName, ingredient)
    \/ Second
    \/ Tick

SpecCache == PricesInit /\ [][CacheNext]_vars

\* the rows a read of the cache could choose from: the rows there were for
\* the store and the term
Candidates(a) ==
    {r \in snapshots :
        /\ r.id <= a.rows
        /\ r.store_name = a.storeName
        /\ a.ingredient \in {r.ingredient, r.normalized_ingredient}}

\* the age of a row at the time of a read, in seconds
AgeAt(r, a) == a.at - r.scraped_at

\* C13: getCachedPrice never answers with an observation older than 24
\* hours, and of several fresh observations it answers with the one written
\* last: no fresh observation written after the answer has another price
C13_FreshAndLastWritten ==
    \A i \in 1..Len(answer) :
       LET a == answer[i]
       IN  a.row # <<>> =>
              /\ a.row[1] \in Candidates(a)
              /\ AgeAt(a.row[1], a) < maxAgeHours * SecondsPerHour
              /\ \A r \in Candidates(a) :
                    (/\ AgeAt(r, a) < maxAgeHours * SecondsPerHour
                     /\ r.id > a.row[1].id)
                       => r.price = a.row[1].price

\* the first half of C13 alone: the answer is never older than 24 hours, and
\* no other fresh candidate has a later scraped_at
C13_FreshAndLatestSecond ==
    \A i \in 1..Len(answer) :
       LET a == answer[i]
       IN  a.row # <<>> =>
              /\ a.row[1] \in Candidates(a)
              /\ AgeAt(a.row[1], a) < maxAgeHours * SecondsPerHour
              /\ \A r \in Candidates(a) :
                    AgeAt(r, a) < maxAgeHours * SecondsPerHour
                       => r.scraped_at <= a.row[1].scraped_at

\* a read that found stale rows only answers with no row, and the stale
\* rows stay stored
C13_StaleRowsStayStored ==
    \E i \in 1..Len(answer) :
       /\ answer[i].row = <<>>
       /\ Candidates(answer[i]) # {}

====
